---------------------------- MODULE Spec2Model ----------------------------
(***************************************************************************)
(* Digital-certificate backend: the payment validation engine              *)
(* (payment_validator.py), the JSON store (data_manager.py) and the        *)
(* application lifecycle with its automatic background driver (app.py).    *)
(*                                                                         *)
(* Strings the code inspects character by character are sequences of       *)
(* one-character strings; labels the code only compares are TLA+ strings.  *)
(* Time is an integer number of seconds since 2025-01-01 00:00:00.         *)
(***************************************************************************)
EXTENDS Integers, Sequences, FiniteSets, TLC

VARIABLES applications, certificates, payments, audit_logs,
          now, t0, tasks, resp, budget, faults_left, engine

vars == <<applications, certificates, payments, audit_logs,
          now, t0, tasks, resp, budget, faults_left, engine>>

(***************************************************************************)
(* Bounds of the model                                                     *)
(***************************************************************************)
MaxApps == 1

MaxManualValidations == 1

MaxManualIssues == 1

MaxTime == 11

MaxFaults == 1

(***************************************************************************)
(* Characters and Python string predicates                                 *)
(***************************************************************************)
DigitChars == <<"0", "1", "2", "3", "4", "5", "6", "7", "8", "9">>

Digits == {DigitChars[i] : i \in 1..10}

Letters ==
    {"A","B","C","D","E","F","G","H","I","J","K","L","M","N","O","P","Q",
     "R","S","T","U","V","W","X","Y","Z","a","b","c","d","e","f","g","h",
     "i","j","k","l","m","n","o","p","q","r","s","t","u","v","w","x","y","z"}

Whitespace == {" ", "\t", "\n"}

\* str.isdigit(): non-empty and every character a digit
IsDigit(s) == Len(s) > 0 /\ \A i \in 1..Len(s) : s[i] \in Digits

\* str.isalnum(): non-empty and every character a letter or a digit
IsAlnum(s) == Len(s) > 0 /\ \A i \in 1..Len(s) : s[i] \in Digits \cup Letters

\* bool(s.strip()): some character is not whitespace
StripNonEmpty(s) == \E i \in 1..Len(s) : s[i] \notin Whitespace

\* s.startswith(p)
StartsWith(s, p) == Len(s) >= Len(p) /\ SubSeq(s, 1, Len(p)) = p

\* s[-n:]
Tail_n(s, n) == IF Len(s) <= n THEN s ELSE SubSeq(s, Len(s) - n + 1, Len(s))

\* re.match with a trailing "$": the pattern may be followed by one newline
DollarCore(s, n) == IF Len(s) = n + 1 /\ s[n + 1] = "\n" THEN SubSeq(s, 1, n) ELSE s

\* a date pattern without the dashes: eight digits
MatchCompactDate(s) == Len(s) = 8 /\ \A i \in 1..8 : s[i] \in Digits

\* re.match(r'^\d{4}-\d{2}-\d{2}$', s)
MatchDate(s) ==
    LET c == DollarCore(s, 10)
    IN  /\ Len(c) = 10
        /\ \A i \in {1, 2, 3, 4, 6, 7, 9, 10} : c[i] \in Digits
        /\ c[5] = "-" /\ c[8] = "-"

\* re.match(r'^\d{2}:\d{2}:\d{2}$', s)
MatchTime(s) ==
    LET c == DollarCore(s, 8)
    IN  /\ Len(c) = 8
        /\ \A i \in {1, 2, 4, 5, 7, 8} : c[i] \in Digits
        /\ c[3] = ":" /\ c[6] = ":"

\* "%02d" and "%04d" of a non-negative integer
Pad2(n) == <<DigitChars[((n \div 10) % 10) + 1], DigitChars[(n % 10) + 1]>>

Pad4(n) ==
    IF n >= 10000
    THEN <<DigitChars[((n \div 10000) % 10) + 1]>> \o Pad2((n \div 100) % 100) \o Pad2(n % 100)
    ELSE Pad2((n \div 100) % 100) \o Pad2(n % 100)

(***************************************************************************)
(* The clock: datetime.now() and its strftime renderings                   *)
(***************************************************************************)
SecondsPerDay == 86400

HourOf(t) == (t % SecondsPerDay) \div 3600

DayOf(t) == 1 + (t \div SecondsPerDay)

\* strftime("%Y-%m-%d")
FmtDate(t) == <<"2", "0", "2", "5", "-", "0", "1", "-">> \o Pad2(DayOf(t))

\* strftime("%H:%M:%S")
FmtTime(t) == Pad2(HourOf(t)) \o <<":">> \o Pad2((t % 3600) \div 60) \o <<":">> \o Pad2(t % 60)

\* strftime("%Y%m%d_%H%M%S")
FmtStamp(t) ==
    <<"2", "0", "2", "5", "0", "1">> \o Pad2(DayOf(t)) \o <<"_">>
        \o Pad2(HourOf(t)) \o Pad2((t % 3600) \div 60) \o Pad2(t % 60)

(***************************************************************************)
(* Request values: a value of a Dict[str, Any] bundle is a string, None    *)
(* or a number                                                             *)
(***************************************************************************)
S(chars) == [t |-> "str", v |-> chars]

None == [t |-> "none", v |-> <<>>]

Num(digits) == [t |-> "int", v |-> digits]

\* d.get(k, "")
Get(d, k) == IF k \in DOMAIN d THEN d[k] ELSE S(<<>>)

IsStr(x) == x.t = "str"

\* Python truthiness of a bundle value
Truthy(x) == CASE x.t = "str" -> Len(x.v) > 0
               [] x.t = "none" -> FALSE
               [] OTHER -> x.v # <<"0">>

\* x == "literal" for a bundle value
Eq(x, chars) == x.t = "str" /\ x.v = chars

\* len(repr(x))
ReprLen(x) == CASE x.t = "str" -> Len(x.v) + 2
                [] x.t = "none" -> 4
                [] OTHER -> Len(x.v)

RECURSIVE SumOver(_, _)
SumOver(f, dom) ==
    IF dom = {} THEN 0
    ELSE LET k == CHOOSE x \in dom : TRUE IN f[k] + SumOver(f, dom \ {k})

\* len(str(d)) of a dict: braces, 'key': value items, ", " separators
DictReprLen(d) ==
    IF DOMAIN d = {} THEN 2
    ELSE 2 + SumOver([k \in DOMAIN d |-> Len(k) + 4 + ReprLen(d[k])], DOMAIN d)
           + 2 * (Cardinality(DOMAIN d) - 1)

(***************************************************************************)
(* PaymentValidator: the three rubrics                                     *)
(***************************************************************************)
Pts(cond, n) == IF cond THEN n ELSE 0

Iss(cond, msg) == IF cond THEN <<>> ELSE <<msg>>

Min(a, b) == IF a <= b THEN a ELSE b

Max(a, b) == IF a >= b THEN a ELSE b

\* `field_value and str(field_value).strip()` for a string field
PresentStr(s) == Len(s) > 0 /\ StripNonEmpty(s)

\* a bundle that counts as present only when none of its values is empty
PresentDictAllValues(d) == DOMAIN d # {} /\ \A k \in DOMAIN d : d[k] # S(<<>>)

\* the same test for a bundle: a non-empty dict prints as a non-blank string
PresentDict(d) == DOMAIN d # {}

validate_functional(request) ==
    LET payment_info == request.payment_information
        transmission_date == Get(payment_info, "transmission_date")
        transmission_time == Get(payment_info, "transmission_time")
        local_date == Get(payment_info, "local_transaction_date")
        local_time == Get(payment_info, "local_transaction_time")
        merchant_id == Get(request.acquiring_information, "merchant_id")
        mcc == Get(request.merchant_information, "merchant_category_code")
        terminal_id == Get(request.acquiring_information, "terminal_id")
        payment_type == Get(payment_info, "payment_type")
        has_id == PresentStr(request.application_id)
        has_init == PresentStr(request.payment_initiation_type)
        has_pay == PresentDict(request.payment_information)
        has_mer == PresentDict(request.merchant_information)
        has_acq == PresentDict(request.acquiring_information)
        required_fields_score ==
            Pts(has_id, 6) + Pts(has_init, 6) + Pts(has_pay, 6) + Pts(has_mer, 6) + Pts(has_acq, 6)
        ok_td == MatchDate(transmission_date.v)
        ok_tt == MatchTime(transmission_time.v)
        ok_ld == MatchDate(local_date.v)
        ok_lt == MatchTime(local_time.v)
        ok_mid == Len(merchant_id.v) >= 8 /\ IsAlnum(merchant_id.v)
        format_score ==
            Pts(ok_td, 5) + Pts(ok_tt, 5) + Pts(ok_ld, 5) + Pts(ok_lt, 5) + Pts(ok_mid, 5)
        ok_ptype == \/ Eq(payment_type, <<"s","i","n","g","l","e">>)
                    \/ Eq(payment_type, <<"r","e","c","u","r","r","i","n","g">>)
                    \/ Eq(payment_type, <<"i","n","s","t","a","l","l","m","e","n","t">>)
        ok_method == request.transaction_accept_method \in
                        { <<"e","l","e","c","t","r","o","n","i","c","C","o","m","m","e","r","c","e">>,
                          <<"m","o","t","o">>, <<"p","o","s">> }
        ok_mcc == IsDigit(mcc.v) /\ Len(mcc.v) = 4
        business_logic_score == Pts(ok_ptype, 8) + Pts(ok_method, 8) + Pts(ok_mcc, 9)
        ok_dates == transmission_date = local_date
        ok_term == terminal_id # S(<<"0","0","0","0","0","0","0","0">>) /\ Len(terminal_id.v) = 8
        consistency_score == Pts(ok_dates, 10) + Pts(ok_term, 10)
        score == required_fields_score + format_score + business_logic_score + consistency_score
    IN  [ score |-> Min(score, 100),
          details |-> [ required_fields_score |-> required_fields_score,
                        format_score |-> format_score,
                        business_logic_score |-> business_logic_score,
                        consistency_score |-> consistency_score ],
          issues |->
              Iss(has_id, "Missing or empty application_id")
              \o Iss(has_init, "Missing or empty payment_initiation_type")
              \o Iss(has_pay, "Missing or empty payment_information")
              \o Iss(has_mer, "Missing or empty merchant_information")
              \o Iss(has_acq, "Missing or empty acquiring_information")
              \o Iss(ok_td, "Invalid transmission_date format")
              \o Iss(ok_tt, "Invalid transmission_time format")
              \o Iss(ok_ld, "Invalid local_transaction_date format")
              \o Iss(ok_lt, "Invalid local_transaction_time format")
              \o Iss(ok_mid, "Invalid merchant_id format")
              \o Iss(ok_ptype, "Invalid payment_type")
              \o Iss(ok_method, "Invalid transaction_accept_method")
              \o Iss(ok_mcc, "Invalid merchant_category_code")
              \o Iss(ok_dates, "Date inconsistency between transmission and local transaction")
              \o Iss(ok_term, "Invalid or placeholder terminal_id"),
          \* re.match, len and the str methods raise on a value that is not a string
          raised |-> \/ ~IsStr(transmission_date) \/ ~IsStr(transmission_time)
                     \/ ~IsStr(local_date) \/ ~IsStr(local_time)
                     \/ ~IsStr(merchant_id) \/ ~IsStr(mcc) \/ ~IsStr(terminal_id) ]

\* len(str(request.dict())): the seven keys with their quotes, colons and
\* separators take 178 characters
PayloadSize(request) ==
    178 + (Len(request.application_id) + 2)
        + (Len(request.payment_initiation_type) + 2)
        + DictReprLen(request.payment_information)
        + (Len(request.transaction_accept_method) + 2)
        + DictReprLen(request.merchant_information)
        + DictReprLen(request.acquiring_information)
        + DictReprLen(request.etp_pos_secure)

\* the three performance tests, for a payload of the given printed size
PerformanceTests(request, rnd, payload_size) ==
    LET name == Get(request.merchant_information, "card_acceptor_name")
        complexity_factors ==
            Pts(Eq(Get(request.payment_information, "payment_type"),
                   <<"r","e","c","u","r","r","i","n","g">>), 1)
            + Pts(Eq(Get(request.etp_pos_secure, "security_level_indicator"),
                     <<"a","u","t","h","e","n","t","i","c","a","t","e","d">>), 1)
            + Pts(Len(name.v) > 15, 1)
        processing_time == 100 + complexity_factors * 100 + rnd.jitter
        actual_time == processing_time + rnd.overshoot
        response_time_score ==
            IF actual_time < 200 THEN 40
            ELSE IF actual_time < 400 THEN 30
            ELSE IF actual_time < 600 THEN 20 ELSE 10
        concurrent_capacity == rnd.capacity
        throughput_score ==
            IF concurrent_capacity >= 150 THEN 30
            ELSE IF concurrent_capacity >= 100 THEN 20
            ELSE IF concurrent_capacity >= 75 THEN 15 ELSE 10
        \* memory_efficiency = max(0, 100 - payload_size / 50), kept times 50
        memory_efficiency50 == Max(0, 5000 - payload_size)
        memory_score ==
            IF memory_efficiency50 >= 4000 THEN 30
            ELSE IF memory_efficiency50 >= 3000 THEN 20
            ELSE IF memory_efficiency50 >= 2000 THEN 15 ELSE 10
        score == response_time_score + throughput_score + memory_score
    IN  [ score |-> Min(score, 100),
          details |-> [ response_time_score |-> response_time_score,
                        throughput_score |-> throughput_score,
                        memory_score |-> memory_score ],
          issues |-> Iss(response_time_score # 10, "Slow response time")
                     \o Iss(throughput_score # 10, "Low throughput capacity")
                     \o Iss(memory_score # 10, "High memory usage indicated by payload size"),
          raised |-> ~IsStr(name) ]

\* rnd: the random jitter in milliseconds, the time by which the sleep
\* overshoots, and the random concurrent capacity
validate_performance(request, rnd) ==
    CHOOSE r \in { PerformanceTests(request, rnd, payload_size) :
                      payload_size \in {PayloadSize(request)} } : TRUE

validate_security(request, current_hour) ==
    LET security_level == Get(request.etp_pos_secure, "security_level_indicator")
        merchant_id == Get(request.acquiring_information, "merchant_id")
        terminal_id == Get(request.acquiring_information, "terminal_id")
        trace_number == Get(request.payment_information, "system_trace_audit_number")
        payment_type == Get(request.payment_information, "payment_type")
        authenticated == Eq(security_level, <<"a","u","t","h","e","n","t","i","c","a","t","e","d">>)
        unauthenticated == Eq(security_level, <<"u","n","a","u","t","h","e","n","t","i","c","a","t","e","d">>)
        auth_score == IF authenticated THEN 35 ELSE IF unauthenticated THEN 15 ELSE 0
        is_abc == StartsWith(merchant_id.v, <<"A","B","C">>)
        is_xyz == StartsWith(merchant_id.v, <<"X","Y","Z">>)
        is_test == StartsWith(merchant_id.v, <<"T","E","S","T">>)
        merchant_score == IF is_abc THEN 25 ELSE IF is_xyz THEN 15 ELSE IF is_test THEN 5 ELSE 10
        placeholder == terminal_id = S(<<"0","0","0","0","0","0","0","0">>)
        ok_trace == Truthy(trace_number) /\ IsDigit(trace_number.v) /\ Len(trace_number.v) = 6
        integrity_score == (IF placeholder THEN 5 ELSE 15) + Pts(ok_trace, 10)
        recurring == Eq(payment_type, <<"r","e","c","u","r","r","i","n","g">>)
        off_hours == current_hour < 6 \/ current_hour > 22
        risk_score == 15 - Pts(recurring, 5) - Pts(off_hours, 3)
        score == auth_score + merchant_score + integrity_score + Max(0, risk_score)
    IN  [ score |-> Min(score, 100),
          details |-> [ authentication_score |-> auth_score,
                        merchant_score |-> merchant_score,
                        integrity_score |-> integrity_score,
                        risk_score |-> Max(0, risk_score) ],
          issues |->
              (IF authenticated THEN <<>>
               ELSE IF unauthenticated THEN <<"Unauthenticated transaction detected">>
               ELSE <<"Unknown security level indicator">>)
              \o (IF is_abc \/ is_xyz THEN <<>>
                  ELSE IF is_test THEN <<"Test merchant detected - low security score">>
                  ELSE <<"Unknown merchant pattern">>)
              \o Iss(~placeholder, "Suspicious terminal ID pattern")
              \o Iss(ok_trace, "Invalid system trace audit number")
              \o Iss(~recurring, "Recurring payment carries additional risk")
              \o Iss(~off_hours, "Off-hours transaction detected"),
          \* startswith and isdigit raise on a value that is not a string
          raised |-> ~IsStr(merchant_id) \/ (Truthy(trace_number) /\ ~IsStr(trace_number)) ]

(***************************************************************************)
(* PaymentValidator.validate_payment                                       *)
(***************************************************************************)
\* The weighted sum is computed in binary floating point.  For these score
\* triples, coded functional * 10201 + performance * 101 + security, the
\* exact sum is a whole number and the floating-point sum falls just below
\* it, so int() yields one less.
FloatShortfall ==
    { 110, 220, 250, 360, 370, 380, 390, 400, 440, 450, 500, 870,
      880, 890, 900, 910, 940, 950, 1370, 1380, 1390, 1400, 1820, 1880,
      1890, 1900, 2380, 2390, 2400, 3140, 3640, 4150, 4650, 4850, 5760, 5770,
      5780, 6270, 6280, 6770, 6780, 6790, 7280, 7290, 7780, 7790, 7800, 8290,
      8300, 8790, 8800, 9300, 9700, 9800, 10213, 10263, 10273, 10283, 10293, 10333,
      10343, 10353, 10513, 10653, 10763, 10773, 10783, 10793, 10803, 10813, 10843, 10853,
      10903, 11113, 11273, 11283, 11293, 11303, 11313, 11343, 11353, 11413, 15053, 15563,
      15573, 15583, 15593, 15603, 15663, 15673, 15703, 15963, 15973, 15983, 15993, 16003,
      16063, 16073, 16083, 16093, 16103, 16163, 16173, 16183, 16463, 16473, 16483, 16493,
      16503, 16573, 16583, 16593, 16603, 16673, 16683, 16973, 16983, 16993, 17003, 17073,
      17083, 17093, 17103, 17173, 17183, 17193, 17473, 17483, 17493, 17503, 17583, 17593,
      17603, 17683, 17693, 17983, 17993, 18003, 18083, 18093, 18103, 18183, 18193, 18203,
      18483, 18493, 18503, 18593, 18603, 18693, 18703, 18993, 19003, 19093, 19103, 19193,
      19203, 19493, 19503, 19603, 19703, 19903, 19913, 19923, 19933, 19943, 19993, 20003,
      20103, 20203, 20426, 20666, 20676, 20686, 20696, 20736, 20746, 21026, 21306, 21616,
      21626, 21676, 21686, 21696, 21706, 22176, 22186, 22196, 22206, 22226, 22626, 22686,
      22696, 22706, 22726, 22826, 25556, 25566, 25576, 25606, 30106, 30699, 31569, 31579,
      31589, 31599, 33029, 33039, 33049, 33089, 33099, 33539, 33549, 33589, 33599, 34039,
      34049, 34099, 34549, 34599, 35049, 35459, 35469, 35499, 35959, 35969, 35979, 36369,
      36379, 36389, 36399, 36469, 36479, 36869, 36879, 36889, 36899, 36969, 36979, 36989,
      37379, 37389, 37399, 37479, 37489, 37879, 37889, 37899, 37979, 37989, 37999, 38389,
      38399, 38489, 38499, 38889, 38899, 38989, 38999, 39399, 39499, 39899, 39999, 40299,
      40852, 40962, 40972, 40982, 40992, 41002, 41102, 41472, 41482, 41492, 41502, 42022,
      42052, 42522, 42552, 43232, 43252, 43742, 43942, 43952, 43992, 44002, 44242, 44442,
      44452, 44502, 44752, 44952, 45002, 45252, 45452, 45652, 51365, 51375, 51385, 51395,
      51405, 51505, 51915, 51925, 51945, 52825, 52885, 52895, 52905, 53335, 53345, 53385,
      53395, 53405, 54145, 54645, 56165, 56175, 56185, 56195, 56205, 56765, 56775, 56785,
      57275, 57285, 57775, 57785, 57795, 58285, 58295, 58785, 58795, 58805, 59295, 59305,
      59795, 59805, 60305, 60705, 60805, 66058, 66068, 66078, 66088, 66098, 66568, 66578,
      66588, 66598, 67068, 67078, 67088, 67098, 67578, 67588, 67598, 68078, 68088, 68098,
      68588, 68598, 69088, 69098, 69598, 70098, 70908, 70918, 70928, 70938, 70948, 70998,
      76061, 76071, 76101, 76561, 76571, 76581, 81311, 81321, 81331, 81341, 81351, 81401,
      81704, 84034, 84044, 84094, 84104, 84544, 84594, 84604, 85044, 85104, 85604, 86464,
      86474, 86504, 86964, 86974, 86984, 87374, 87384, 87394, 87404, 87474, 87484, 87874,
      87884, 87894, 87904, 87974, 87984, 87994, 88384, 88394, 88404, 88484, 88494, 88884,
      88894, 88904, 88984, 88994, 89004, 89394, 89404, 89494, 89504, 89894, 89904, 89994,
      90004, 90404, 90504, 90904, 91004, 91304, 91967, 91977, 91987, 91997, 94237, 94747,
      94947, 94997, 95247, 95447, 101607, 101617, 101627, 101637, 101647, 101657, 102920, 102950,
      103830, 103840, 103850, 103890, 103900, 104340, 104350, 104390, 104400, 105150, 105650, 106160,
      106170, 106180, 106190, 106200, 106660, 106670, 106680, 106690, 106700, 107170, 107180, 107190,
      107200, 107770, 107780, 107790, 108280, 108290, 108780, 108790, 108800, 109290, 109300, 109790,
      109800, 110300, 110800, 111810, 111820, 111830, 111840, 111850, 111860, 111870, 111880, 111890,
      111900, 117063, 117073, 117083, 117093, 117103, 117573, 117583, 117593, 117603, 118073, 118083,
      118093, 118103, 118583, 118593, 118603, 119083, 119093, 119103, 119593, 119603, 120093, 120103,
      120603, 121103, 121913, 121923, 121933, 121943, 121953, 122003, 132116, 132126, 132136, 132146,
      132156, 132166, 132176, 132186, 132196, 132206, 135039, 135049, 135099, 135549, 135599, 136049,
      137469, 137479, 137969, 137979, 137989, 138379, 138389, 138399, 138479, 138489, 138879, 138889,
      138899, 138979, 138989, 138999, 139389, 139399, 139489, 139499, 139889, 139899, 139989, 139999,
      140399, 140499, 140899, 140999, 146002, 152112, 152122, 152132, 152142, 152152, 152202, 152612,
      152622, 152632, 152642, 152652, 152662, 154835, 154845, 154895, 155345, 155395, 156655, 156665,
      156675, 156685, 156695, 157165, 157175, 157185, 157195, 157665, 157675, 157685, 157695, 158175,
      158185, 158195, 158775, 158785, 158795, 159285, 159295, 159785, 159795, 160295, 160795, 161805,
      161815, 161825, 161835, 161845, 161855, 161865, 161875, 161885, 161895, 162315, 162325, 162335,
      162345, 162355, 162365, 162375, 162385, 162395, 162405, 162815, 162825, 162835, 162845, 162855,
      162865, 162875, 162885, 162895, 162905, 168068, 168078, 168088, 168098, 168578, 168588, 168598,
      169078, 169088, 169098, 169588, 169598, 170088, 170098, 170598, 171098, 172918, 172928, 172938,
      172948, 172958, 173008, 183121, 183131, 183141, 183151, 183161, 183171, 183181, 183191, 183201,
      186044, 188474, 188484, 188974, 188984, 188994, 189384, 189394, 189484, 189494, 189884, 189894,
      189984, 189994, 190394, 190494, 190894, 190994, 202107, 202117, 202127, 202137, 202147, 202197,
      202607, 202617, 202627, 202637, 202647, 202657, 203117, 203127, 203137, 203147, 203157, 203207,
      203617, 203627, 203637, 203647, 203657, 203667, 205840, 205900, 206400, 207160, 207170, 207180,
      207190, 207200, 207660, 207670, 207680, 207690, 207700, 208170, 208180, 208190, 208200, 208670,
      208680, 208690, 208700, 209180, 209190, 209200, 209780, 209790, 209800, 210290, 210300, 210790,
      210800, 211300, 211800, 212310, 212320, 212330, 212340, 212350, 212360, 212370, 212380, 212390,
      212400, 212810, 212820, 212830, 212840, 212850, 212860, 212870, 212880, 212890, 212900, 213320,
      213330, 213340, 213350, 213360, 213370, 213380, 213390, 213400, 213820, 213830, 213840, 213850,
      213860, 213870, 213880, 213890, 213900, 219073, 219083, 219093, 219583, 219593, 220083, 220093,
      220593, 221093, 223923, 223933, 223943, 223953, 223963, 234126, 234136, 234146, 234156, 234166,
      234176, 234186, 234196, 234206, 240389, 240399, 240889, 240899, 241399, 241899, 256845, 258165,
      258175, 258185, 258195, 258665, 258675, 258685, 258695, 259175, 259185, 259195, 259675, 259685,
      259695, 260185, 260195, 260785, 260795, 261295, 261795, 262805, 262815, 262825, 262835, 262845,
      262855, 262865, 262875, 262885, 262895, 263315, 263325, 263335, 263345, 263355, 263365, 263375,
      263385, 263395, 263405, 263815, 263825, 263835, 263845, 263855, 263865, 263875, 263885, 263895,
      263905, 264325, 264335, 264345, 264355, 264365, 264375, 264385, 264395, 264405, 264825, 264835,
      264845, 264855, 264865, 264875, 264885, 264895, 264905, 270078, 270088, 270098, 270588, 270598,
      271088, 271098, 271598, 272098, 274928, 274938, 274948, 274958, 274968, 285131, 285141, 285151,
      285161, 285171, 285181, 285191, 285201, 291394, 291894, 309170, 309180, 309190, 309670, 309680,
      309690, 310180, 310190, 310680, 310690, 311190, 311790, 312800, 312810, 312820, 312830, 312840,
      312850, 312860, 312870, 312880, 312890, 313310, 313320, 313330, 313340, 313350, 313360, 313370,
      313380, 313390, 313400, 313810, 313820, 313830, 313840, 313850, 313860, 313870, 313880, 313890,
      313900, 314320, 314330, 314340, 314350, 314360, 314370, 314380, 314390, 314400, 314820, 314830,
      314840, 314850, 314860, 314870, 314880, 314890, 314900, 315330, 315340, 315350, 315360, 315370,
      315380, 315390, 315400, 315830, 315840, 315850, 315860, 315870, 315880, 315890, 315900, 321083,
      321093, 321593, 322093, 325933, 325943, 325953, 325963, 325973, 336136, 336146, 336156, 336166,
      336176, 336186, 336196, 360175, 360185, 360195, 360675, 360685, 360695, 361185, 361195, 361685,
      361695, 362195, 362795, 363305, 363315, 363325, 363335, 363345, 363355, 363365, 363375, 363385,
      363395, 363805, 363815, 363825, 363835, 363845, 363855, 363865, 363875, 363885, 363895, 364315,
      364325, 364335, 364345, 364355, 364365, 364375, 364385, 364395, 364815, 364825, 364835, 364845,
      364855, 364865, 364875, 364885, 364895, 365325, 365335, 365345, 365355, 365365, 365375, 365385,
      365395, 365825, 365835, 365845, 365855, 365865, 365875, 365885, 365895, 366335, 366345, 366355,
      366365, 366375, 366385, 366395, 366835, 366845, 366855, 366865, 366875, 366885, 366895, 372088,
      376938, 376948, 376958, 376968, 376978, 387141, 387151, 387161, 387171, 387181, 387191, 387201,
      411180, 411190, 411680, 411690, 412190, 412690, 413800, 413810, 413820, 413830, 413840, 413850,
      413860, 413870, 413880, 413890, 414310, 414320, 414330, 414340, 414350, 414360, 414370, 414380,
      414390, 414400, 414810, 414820, 414830, 414840, 414850, 414860, 414870, 414880, 414890, 414900,
      415320, 415330, 415340, 415350, 415360, 415370, 415380, 415390, 415400, 415820, 415830, 415840,
      415850, 415860, 415870, 415880, 415890, 415900, 416330, 416340, 416350, 416360, 416370, 416380,
      416390, 416400, 416830, 416840, 416850, 416860, 416870, 416880, 416890, 416900, 417340, 417350,
      417360, 417370, 417380, 417390, 417400, 417840, 417850, 417860, 417870, 417880, 417890, 417900,
      438146, 438156, 438166, 438176, 438186, 438196, 438949, 438959, 438969, 439459, 439469, 439859,
      439869, 439879, 439889, 439959, 439969, 439979, 440369, 440379, 440389, 440469, 440479, 440869,
      440879, 440889, 440969, 440979, 440989, 441379, 441389, 441879, 441889, 442389, 442889, 443999,
      444009, 444019, 444029, 444039, 444049, 444059, 444069, 444079, 444089, 444509, 444519, 444529,
      444539, 444549, 444559, 444569, 444579, 444589, 444599, 445009, 445019, 445029, 445039, 445049,
      445059, 445069, 445079, 445089, 445099, 445519, 445529, 445539, 445549, 445559, 445569, 445579,
      445589, 445599, 446019, 446029, 446039, 446049, 446059, 446069, 446079, 446089, 446099, 446529,
      446539, 446549, 446559, 446569, 446579, 446589, 446599, 447029, 447039, 447049, 447059, 447069,
      447079, 447089, 447099, 447539, 447549, 447559, 447569, 447579, 447589, 447599, 448039, 448049,
      448059, 448069, 448079, 448089, 448099, 448549, 448559, 448569, 448579, 448589, 448599, 462185,
      462685, 464805, 464815, 464825, 464835, 464845, 464855, 464865, 464875, 464885, 464895, 465315,
      465325, 465335, 465345, 465355, 465365, 465375, 465385, 465395, 465815, 465825, 465835, 465845,
      465855, 465865, 465875, 465885, 465895, 466325, 466335, 466345, 466355, 466365, 466375, 466385,
      466395, 466825, 466835, 466845, 466855, 466865, 466875, 466885, 466895, 467335, 467345, 467355,
      467365, 467375, 467385, 467395, 467835, 467845, 467855, 467865, 467875, 467885, 467895, 468345,
      468355, 468365, 468375, 468385, 468395, 468845, 468855, 468865, 468875, 468885, 468895, 489151,
      489161, 489171, 489181, 489191, 513190, 513690, 515810, 515820, 515830, 515840, 515850, 515860,
      515870, 515880, 515890, 516320, 516330, 516340, 516350, 516360, 516370, 516380, 516390, 516820,
      516830, 516840, 516850, 516860, 516870, 516880, 516890, 517330, 517340, 517350, 517360, 517370,
      517380, 517390, 517830, 517840, 517850, 517860, 517870, 517880, 517890, 518340, 518350, 518360,
      518370, 518380, 518390, 518840, 518850, 518860, 518870, 518880, 518890, 519350, 519360, 519370,
      519380, 519390, 519850, 519860, 519870, 519880, 519890, 540156, 540166, 540176, 540186, 540196,
      566815, 566825, 566835, 566845, 566855, 566865, 566875, 566885, 566895, 567325, 567335, 567345,
      567355, 567365, 567375, 567385, 567395, 567825, 567835, 567845, 567855, 567865, 567875, 567885,
      567895, 568335, 568345, 568355, 568365, 568375, 568385, 568395, 568835, 568845, 568855, 568865,
      568875, 568885, 568895, 569345, 569355, 569365, 569375, 569385, 569395, 569845, 569855, 569865,
      569875, 569885, 569895, 570355, 570365, 570375, 570385, 570395, 570855, 570865, 570875, 570885,
      570895, 591161, 591171, 591181, 591191, 617820, 617830, 617840, 617850, 617860, 617870, 617880,
      617890, 618330, 618340, 618350, 618360, 618370, 618380, 618390, 618830, 618840, 618850, 618860,
      618870, 618880, 618890, 619340, 619350, 619360, 619370, 619380, 619390, 619840, 619850, 619860,
      619870, 619880, 619890, 620350, 620360, 620370, 620380, 620390, 620850, 620860, 620870, 620880,
      620890, 621360, 621370, 621380, 621390, 621860, 621870, 621880, 621890, 642166, 642176, 642186,
      668825, 668835, 668845, 668855, 668865, 668875, 668885, 669335, 669345, 669355, 669365, 669375,
      669385, 669835, 669845, 669855, 669865, 669875, 669885, 670345, 670355, 670365, 670375, 670385,
      670845, 670855, 670865, 670875, 670885, 671355, 671365, 671375, 671385, 671855, 671865, 671875,
      671885, 672365, 672375, 672385, 672865, 672875, 672885, 693171, 693181, 693191, 719830, 719840,
      719850, 719860, 719870, 719880, 719890, 720340, 720350, 720360, 720370, 720380, 720390, 720840,
      720850, 720860, 720870, 720880, 720890, 721350, 721360, 721370, 721380, 721390, 721850, 721860,
      721870, 721880, 721890, 722360, 722370, 722380, 722390, 722860, 722870, 722880, 722890, 723370,
      723380, 723390, 723870, 723880, 723890, 744176, 744186, 770835, 770845, 770855, 770865, 770875,
      770885, 771345, 771355, 771365, 771375, 771385, 771845, 771855, 771865, 771875, 771885, 772355,
      772365, 772375, 772385, 772855, 772865, 772875, 772885, 773365, 773375, 773385, 773865, 773875,
      773885, 774375, 774385, 774875, 774885, 795181, 821840, 821850, 821860, 821870, 821880, 822350,
      822360, 822370, 822380, 822850, 822860, 822870, 822880, 823360, 823370, 823380, 823860, 823870,
      823880, 824370, 824380, 824870, 824880, 825380, 825880, 826383, 826393, 826403, 826413, 826423,
      826433, 826893, 826903, 826913, 826923, 826933, 826983, 827393, 827403, 827413, 827423, 827433,
      827443, 827903, 827913, 827923, 827933, 827943, 828403, 828413, 828423, 828433, 828443, 828453,
      828713, 828723, 828733, 828743, 828753, 828763, 828773, 828783, 828913, 828923, 828933, 828943,
      828953, 829213, 829223, 829233, 829243, 829253, 829263, 829273, 829283, 829413, 829423, 829433,
      829443, 829453, 829463, 829723, 829733, 829743, 829753, 829763, 829773, 829783, 829923, 829933,
      829943, 829953, 829963, 830223, 830233, 830243, 830253, 830263, 830273, 830283, 830423, 830433,
      830443, 830453, 830463, 830473, 830733, 830743, 830753, 830763, 830773, 830783, 830933, 830943,
      830953, 830963, 830973, 831233, 831243, 831253, 831263, 831273, 831283, 831433, 831443, 831453,
      831463, 831473, 831483, 831743, 831753, 831763, 831773, 831783, 832243, 832253, 832263, 832273,
      832283, 832753, 832763, 832773, 832783, 833253, 833263, 833273, 833283, 833763, 833773, 833783,
      834263, 834273, 834283, 834773, 834783, 835273, 835283, 835783, 835983, 836283, 872845, 872855,
      872865, 872875, 872885, 873355, 873365, 873375, 873385, 873855, 873865, 873875, 873885, 874365,
      874375, 874385, 874865, 874875, 874885, 875375, 875385, 875875, 875885, 876385, 876885, 877388,
      877398, 877408, 877418, 877428, 877438, 877898, 877908, 877918, 877928, 877938, 878398, 878408,
      878418, 878428, 878438, 878448, 878908, 878918, 878928, 878938, 878948, 879408, 879418, 879428,
      879438, 879448, 879458, 879718, 879728, 879738, 879748, 879758, 879768, 879778, 879918, 879928,
      879938, 879948, 879958, 880218, 880228, 880238, 880248, 880258, 880268, 880278, 880418, 880428,
      880438, 880448, 880458, 880468, 880728, 880738, 880748, 880758, 880768, 880778, 880928, 880938,
      880948, 880958, 880968, 881228, 881238, 881248, 881258, 881268, 881278, 881428, 881438, 881448,
      881458, 881468, 881478, 881738, 881748, 881758, 881768, 881778, 881938, 881948, 881958, 881968,
      881978, 882238, 882248, 882258, 882268, 882278, 882438, 882448, 882458, 882468, 882478, 882748,
      882758, 882768, 882778, 883248, 883258, 883268, 883278, 883758, 883768, 883778, 884258, 884268,
      884278, 884768, 884778, 885268, 885278, 885778, 886278, 923850, 923860, 923870, 923880, 924360,
      924370, 924380, 924860, 924870, 924880, 925370, 925380, 925870, 925880, 926380, 926880, 928393,
      928403, 928413, 928423, 928433, 928443, 928903, 928913, 928923, 928933, 928943, 929403, 929413,
      929423, 929433, 929443, 929453, 929913, 929923, 929933, 929943, 929953, 930413, 930423, 930433,
      930443, 930453, 930463, 930723, 930733, 930743, 930753, 930763, 930773, 930783, 930923, 930933,
      930943, 930953, 930963, 931223, 931233, 931243, 931253, 931263, 931273, 931283, 931423, 931433,
      931443, 931453, 931463, 931473, 931733, 931743, 931753, 931763, 931773, 931783, 931933, 931943,
      931953, 931963, 931973, 932233, 932243, 932253, 932263, 932273, 932283, 932433, 932443, 932453,
      932463, 932473, 932483, 932743, 932753, 932763, 932773, 932783, 932943, 932953, 932963, 932973,
      932983, 933243, 933253, 933263, 933273, 933283, 933443, 933453, 933463, 933473, 933483, 933753,
      933763, 933773, 933783, 934253, 934263, 934273, 934283, 934763, 934773, 934783, 935263, 935273,
      935283, 935773, 935783, 936273, 936283, 936783, 937283, 937993, 938003, 938013, 938023, 938033,
      938043, 938053, 938063, 938073, 938083, 974855, 974865, 974875, 975365, 975375, 975865, 975875,
      976375, 976875, 1025860, 1025870, 1025880, 1026370, 1026380, 1026870, 1026880, 1027380, 1027880 }

\* the three scores added up without their weights
OverallScoreUnweighted(functional_score, performance_score, security_score) ==
    functional_score + performance_score + security_score

\* a weighted sum rounded to the nearest whole number
OverallScoreRounded(functional_score, performance_score, security_score) ==
    (4 * functional_score + 3 * performance_score + 3 * security_score + 5) \div 10

\* int(functional * 0.4 + performance * 0.3 + security * 0.3)
OverallScore(functional_score, performance_score, security_score) ==
    LET exact == (4 * functional_score + 3 * performance_score + 3 * security_score) \div 10
    IN  IF /\ (4 * functional_score + 3 * performance_score + 3 * security_score) % 10 = 0
           /\ (functional_score * 10201 + performance_score * 101 + security_score)
                  \in FloatShortfall
        THEN exact - 1
        ELSE exact

\* the thresholds of the comments in payload.py
OverallStatusDocumented(overall_score) ==
    IF overall_score >= 85 THEN "APPROVED"
    ELSE IF overall_score >= 60 THEN "PENDING"
    ELSE "DECLINED"

\* thresholds that a score has to exceed
OverallStatusExclusive(overall_score) ==
    IF overall_score > 70 THEN "APPROVED"
    ELSE IF overall_score > 60 THEN "PENDING"
    ELSE "DECLINED"

OverallStatus(overall_score) ==
    IF overall_score >= 70 THEN "APPROVED"
    ELSE IF overall_score >= 60 THEN "PENDING"
    ELSE "DECLINED"

\* the part of validate_payment after the gather: weigh the three scores,
\* decide the status and collect the issues
CombineResults(functional_result, performance_result, security_result, start_time) ==
    [ functional_score |-> functional_result.score,
      performance_score |-> performance_result.score,
      security_score |-> security_result.score,
      overall_score |-> OverallScore(functional_result.score, performance_result.score,
                                     security_result.score),
      overall_status |-> OverallStatus(OverallScore(functional_result.score,
                                                    performance_result.score,
                                                    security_result.score)),
      functional_details |-> functional_result.details,
      performance_details |-> performance_result.details,
      security_details |-> security_result.details,
      failure_reasons |-> functional_result.issues \o performance_result.issues
                          \o security_result.issues,
      validation_timestamp |-> start_time,
      raised |-> functional_result.raised \/ performance_result.raised
                 \/ security_result.raised ]

\* The three rubric coroutines in the order in which they complete, each
\* with its position among the arguments of asyncio.gather: the functional
\* and the security rubric have no suspension point and run through when
\* first scheduled, the performance rubric sleeps and completes last.
Completed(functional_result, performance_result, security_result) ==
    << [position |-> 1, result |-> functional_result],
       [position |-> 3, result |-> security_result],
       [position |-> 2, result |-> performance_result] >>

\* a join that hands the results back in the order of completion
gather_as_completed(completed) == [i \in 1..Len(completed) |-> completed[i].result]

\* asyncio.gather returns the results in the order of its arguments
gather(completed) ==
    [i \in 1..Len(completed) |->
        completed[CHOOSE k \in 1..Len(completed) : completed[k].position = i].result]

\* start_time: the clock when the call starts, which is also when the
\* security rubric reads the hour; rnd: the random draws of the performance
\* rubric.
validate_payment(request, rnd, start_time) ==
    CHOOSE vr \in { CombineResults(g[1], g[2], g[3], start_time) :
                        g \in {gather(Completed(validate_functional(request),
                                                validate_performance(request, rnd),
                                                validate_security(request, HourOf(start_time))))} }
           : TRUE

\* ValidationResult.dict(): the fields of the result
ResultDict(vr) == [k \in DOMAIN vr \ {"raised"} |-> vr[k]]

(***************************************************************************)
(* DataManager: the four JSON files.  A handler runs as a chain of         *)
(* contexts [st, n, exc]: the files, the number of writes done so far and  *)
(* the pending exception ("" when none).                                   *)
(***************************************************************************)
Store == [applications |-> applications, certificates |-> certificates,
          payments |-> payments, audit_logs |-> audit_logs]

Begin == [st |-> Store, n |-> 0, exc |-> ""]

NoFault == [at |-> 0, mode |-> "keep"]

\* at most this many writes happen in one handler step
MaxWritesPerStep == 4

\* A write fails when the plan says so: either before the file is touched
\* ("keep") or after open() has truncated it ("trunc"), and then raises.
\* A truncated file is read back as the empty list (_read_json_file).
\* When the store is "down", that write and every later write of the step
\* fail before the file is touched.
FaultPlans ==
    IF faults_left = 0 THEN {NoFault}
    ELSE {NoFault} \cup [at : 1..MaxWritesPerStep, mode : {"keep", "trunc", "down"}]

_write_json_file(ctx, file, data, plan) ==
    IF ctx.exc # "" THEN ctx
    ELSE IF plan.at = ctx.n + 1 \/ (plan.mode = "down" /\ plan.at # 0 /\ plan.at <= ctx.n + 1)
    THEN [st |-> IF plan.mode = "trunc" THEN [ctx.st EXCEPT ![file] = <<>>] ELSE ctx.st,
          n |-> ctx.n + 1, exc |-> "Error writing file"]
    ELSE [st |-> [ctx.st EXCEPT ![file] = data], n |-> ctx.n + 1, exc |-> ""]

Raise(ctx, msg) == IF ctx.exc # "" THEN ctx ELSE [ctx EXCEPT !.exc = msg]

Faulted(ctx, plan) == plan.at # 0 /\ plan.at <= ctx.n

\* record r with key k set to v (dict item assignment)
Put(r, k, v) == [x \in DOMAIN r \cup {k} |-> IF x = k THEN v ELSE r[x]]

\* r.get(k, default)
GetOr(r, k, default) == IF k \in DOMAIN r THEN r[k] ELSE default

\* a lookup that answers with the head of the file whenever the value is
\* known
FindFirstRecord(seq, k, v) == IF \E i \in 1..Len(seq) : seq[i][k] = v THEN 1 ELSE 0

\* a lookup that falls back on the first record when none matches
FindFirstOrHead(seq, k, v) ==
    IF \E i \in 1..Len(seq) : seq[i][k] = v
    THEN CHOOSE i \in 1..Len(seq) :
            /\ seq[i][k] = v
            /\ \A j \in 1..(i - 1) : seq[j][k] # v
    ELSE IF seq = <<>> THEN 0 ELSE 1

\* index of the first record whose field k equals v, 0 when there is none
FindFirst(seq, k, v) ==
    IF \E i \in 1..Len(seq) : seq[i][k] = v
    THEN CHOOSE i \in 1..Len(seq) :
            /\ seq[i][k] = v
            /\ \A j \in 1..(i - 1) : seq[j][k] # v
    ELSE 0

\* an identifier made of the clock second alone
generate_application_id_of_second(ctx, t) ==
    <<"A", "P", "P", "_">> \o FmtStamp(t) \o <<"_">> \o Pad4(1)

generate_application_id(ctx, t) ==
    <<"A", "P", "P", "_">> \o FmtStamp(t) \o <<"_">> \o Pad4(Len(ctx.st.applications) + 1)

generate_certificate_id(ctx, t) ==
    <<"C", "E", "R", "T", "_">> \o FmtStamp(t) \o <<"_">> \o Pad4(Len(ctx.st.certificates) + 1)

add_audit_log(ctx, application_id, action, t, plan) ==
    IF ctx.exc # "" THEN ctx
    ELSE LET log_entry == [application_id |-> application_id, action |-> action,
                           timestamp |-> t]
         IN  _write_json_file(ctx, "audit_logs", Append(ctx.st.audit_logs, log_entry), plan)

(***************************************************************************)
(* app.py: the internal lifecycle functions                                *)
(***************************************************************************)
\* a success path that writes the history back from the record as it was
\* when the application was submitted
internal_validate_payment_success_from_snapshot(ctx, application_id, vr, t, plan) ==
    IF ctx.exc # "" THEN ctx
    ELSE
    LET apps == ctx.st.applications
        pays == ctx.st.payments
        app_index == FindFirst(apps, "application_id", application_id)
    IN  IF app_index = 0 THEN Raise(ctx, "Application not found")
        ELSE
        LET payment_record ==
                [application_id |-> application_id, validation_result |-> ResultDict(vr),
                 validation_date |-> t, status |-> "Validated",
                 overall_score |-> vr.overall_score, overall_status |-> vr.overall_status]
            c1 == _write_json_file(ctx, "payments", Append(pays, payment_record), plan)
            a1 == Put(Put(Put(Put(Put(apps[app_index],
                        "status", "Payment Validated"),
                        "current_step", "Certificate Generation"),
                        "payment_validated", TRUE),
                        "payment_date", t),
                        "payment_validation_details", ResultDict(vr))
            a2 == Put(a1, "history",
                      Append(SubSeq(GetOr(a1, "history", <<>>), 1, 2),
                             [step |-> "Payment Auto-Validated", timestamp |-> t,
                              details |-> [score |-> vr.overall_score]]))
        IN  _write_json_file(c1, "applications", [apps EXCEPT ![app_index] = a2], plan)

internal_validate_payment_success(ctx, application_id, vr, t, plan) ==
    IF ctx.exc # "" THEN ctx
    ELSE
    LET apps == ctx.st.applications
        pays == ctx.st.payments
        app_index == FindFirst(apps, "application_id", application_id)
    IN  IF app_index = 0 THEN Raise(ctx, "Application not found")
        ELSE
        LET payment_record ==
                [application_id |-> application_id, validation_result |-> ResultDict(vr),
                 validation_date |-> t, status |-> "Validated",
                 overall_score |-> vr.overall_score, overall_status |-> vr.overall_status]
            c1 == _write_json_file(ctx, "payments", Append(pays, payment_record), plan)
            a1 == Put(Put(Put(Put(Put(apps[app_index],
                        "status", "Payment Validated"),
                        "current_step", "Certificate Generation"),
                        "payment_validated", TRUE),
                        "payment_date", t),
                        "payment_validation_details", ResultDict(vr))
            a2 == Put(a1, "history",
                      Append(GetOr(a1, "history", <<>>),
                             [step |-> "Payment Auto-Validated", timestamp |-> t,
                              details |-> [score |-> vr.overall_score]]))
        IN  _write_json_file(c1, "applications", [apps EXCEPT ![app_index] = a2], plan)

\* a failure path that records the payment and leaves the application alone
internal_validate_payment_failure_payment_only(ctx, application_id, vr, t, plan) ==
    IF ctx.exc # "" THEN ctx
    ELSE _write_json_file(ctx, "payments",
             Append(ctx.st.payments,
                    [application_id |-> application_id, validation_result |-> ResultDict(vr),
                     validation_date |-> t, status |-> "Failed",
                     overall_score |-> vr.overall_score, overall_status |-> vr.overall_status,
                     reason |-> vr.failure_reasons]), plan)

\* a failure path that records the result the way the success path does
internal_validate_payment_failure_as_success(ctx, application_id, vr, t, plan) ==
    internal_validate_payment_success(ctx, application_id, vr, t, plan)

internal_validate_payment_failure(ctx, application_id, vr, t, plan) ==
    IF ctx.exc # "" THEN ctx
    ELSE
    LET apps == ctx.st.applications
        pays == ctx.st.payments
        app_index == FindFirst(apps, "application_id", application_id)
    IN  IF app_index = 0 THEN Raise(ctx, "Application not found")
        ELSE
        LET payment_record ==
                [application_id |-> application_id, validation_result |-> ResultDict(vr),
                 validation_date |-> t, status |-> "Failed",
                 overall_score |-> vr.overall_score, overall_status |-> vr.overall_status,
                 reason |-> vr.failure_reasons]
            c1 == _write_json_file(ctx, "payments", Append(pays, payment_record), plan)
            a1 == Put(Put(Put(Put(Put(apps[app_index],
                        "status", "Payment Failed"),
                        "current_step", "Payment Review Required"),
                        "payment_validated", FALSE),
                        "payment_date", t),
                        "payment_validation_details", ResultDict(vr))
            a2 == Put(a1, "history",
                      Append(GetOr(a1, "history", <<>>),
                             [step |-> "Payment Validation Failed", timestamp |-> t,
                              details |-> [score |-> vr.overall_score,
                                           reasons |-> vr.failure_reasons]]))
        IN  _write_json_file(c1, "applications", [apps EXCEPT ![app_index] = a2], plan)

\* checks that leave out the payment_validated test
issue_preconditions_found_only(apps, app_index) ==
    IF app_index = 0 THEN "Application not found" ELSE ""

\* the checks of internal_issue_certificate: the message of the exception
\* raised, "" when the issuance goes ahead
issue_preconditions(apps, app_index) ==
    IF app_index = 0 THEN "Application not found"
    ELSE IF ~GetOr(apps[app_index], "payment_validated", FALSE)
    THEN "Payment must be validated before certificate issuance"
    ELSE ""

internal_issue_certificate(ctx, application_id, t, plan) ==
    IF ctx.exc # "" THEN ctx
    ELSE
    LET apps == ctx.st.applications
        certs == ctx.st.certificates
        app_index == FindFirst(apps, "application_id", application_id)
    IN  IF issue_preconditions(apps, app_index) # ""
        THEN Raise(ctx, issue_preconditions(apps, app_index))
        ELSE
        LET certificate_id == generate_certificate_id(ctx, t)
            certificate_record ==
                [certificate_id |-> certificate_id, application_id |-> application_id,
                 name |-> apps[app_index].name, status |-> "Valid", issue_date |-> t,
                 validity |-> [start |-> DayOf(t), end |-> DayOf(t) + 365],
                 delivery_medium |-> apps[app_index].certificate_type,
                 revoked |-> FALSE, auto_issued |-> TRUE]
            c1 == _write_json_file(ctx, "certificates", Append(certs, certificate_record), plan)
            a1 == Put(Put(Put(Put(apps[app_index],
                        "status", "Issued"),
                        "current_step", "Completed"),
                        "certificate_id", certificate_id),
                        "issue_date", t)
            a2 == Put(a1, "history",
                      Append(a1.history, [step |-> "Certificate Auto-Issued", timestamp |-> t]))
        IN  _write_json_file(c1, "applications", [apps EXCEPT ![app_index] = a2], plan)

(***************************************************************************)
(* Inputs of the model                                                     *)
(***************************************************************************)
\* clock at start-up: 22:59:55, so that the hour turns to 23 within the run;
\* the security rubric counts hour 23 as off-hours and hour 22 not
StartTimes == {82795}

\* draws of the performance rubric: random jitter (ms), overshoot of the
\* sleep (ms) and random concurrent capacity
RndSamples == { [jitter |-> 0, overshoot |-> 0, capacity |-> 200],
                [jitter |-> 199, overshoot |-> 300, capacity |-> 50] }

\* an application id that no record has
UnknownAppId == <<"A", "P", "P", "_", "X">>

\* the application id of the requests the engine is called with
SampleAppId == <<"A", "P", "P", "_", "0", "0", "1">>

\* a certificate id that no record has
UnknownCertId == <<"C", "E", "R", "T", "_", "X">>

\* request bodies of POST /validate-payment-manual, after payload.py
high_score_payload(application_id) ==
    [ application_id |-> application_id,
      payment_initiation_type |-> <<"c","a","r","d","N","o","t","P","r","e","s","e","n","t","P","a","n">>,
      payment_information |->
        [ account_type |-> S(<<"d","e","f","a","u","l","t">>),
          payment_type |-> S(<<"s","i","n","g","l","e">>),
          transmission_date |-> S(<<"2","0","2","5","-","0","6","-","0","3">>),
          transmission_time |-> S(<<"1","4",":","3","0",":","4","5">>),
          local_transaction_date |-> S(<<"2","0","2","5","-","0","6","-","0","3">>),
          local_transaction_time |-> S(<<"1","4",":","3","0",":","4","5">>),
          settlement_date |-> S(<<"2","0","2","5","-","0","6","-","0","3">>),
          retrieval_reference_number |-> S(<<"0","0","0","0","0","1","2","3","4","5","6","7">>),
          system_trace_audit_number |-> S(<<"1","2","3","4","5","6">>) ],
      transaction_accept_method |-> <<"e","l","e","c","t","r","o","n","i","c","C","o","m","m","e","r","c","e">>,
      merchant_information |->
        [ card_acceptor_name |-> S(<<"T","r","u","s","t","e","d","M","e","r","c","h","a","n","t">>),
          format_card_acceptor |-> S(<<"3","2">>),
          merchant_category_code |-> S(<<"1","2","3","4">>) ],
      acquiring_information |->
        [ merchant_id |-> S(<<"A","B","C","1","2","3","4","5","6","7","8","9">>),
          terminal_id |-> S(<<"1","2","3","4","5","6","7","8">>),
          acquiring_institution_id |-> S(<<"0","0","0","0","3","1">>),
          forwarding_institution_id |-> S(<<"0","0","0","0","3","1">>) ],
      etp_pos_secure |->
        [ security_level_indicator |-> S(<<"a","u","t","h","e","n","t","i","c","a","t","e","d">>) ] ]

low_score_payload(application_id) ==
    [ application_id |-> application_id,
      payment_initiation_type |-> <<"c","a","r","d","N","o","t","P","r","e","s","e","n","t","P","a","n">>,
      payment_information |->
        [ account_type |-> S(<<"d","e","f","a","u","l","t">>),
          payment_type |-> S(<<"r","e","c","u","r","r","i","n","g">>),
          transmission_date |-> S(<<"2","0","2","5","-","6","-","3">>),
          transmission_time |-> S(<<"2","5",":","7","0",":","9","0">>),
          local_transaction_date |-> S(<<"2","0","2","5","-","0","6","-","0","4">>),
          local_transaction_time |-> S(<<"1","6",":","4","5",":","2","0">>),
          settlement_date |-> S(<<"2","0","2","5","-","0","6","-","0","3">>),
          retrieval_reference_number |-> S(<<"0","0","0","0","0","3","3","3","3","3","3","3">>),
          system_trace_audit_number |-> S(<<"3","3","3","3","3">>) ],
      transaction_accept_method |-> <<"i","n","v","a","l","i","d","M","e","t","h","o","d">>,
      merchant_information |->
        [ card_acceptor_name |-> S(<<"T","e","s","t","M","e","r","c","h","a","n","t","W","i","t","h","V","e","r","y","L","o","n","g","N","a","m","e","T","h","a","t","E","x","c","e","e","d","s","N","o","r","m","a","l","L","i","m","i","t","s">>),
          format_card_acceptor |-> S(<<"3","2">>),
          merchant_category_code |-> S(<<"1","2","3","4","5">>) ],
      acquiring_information |->
        [ merchant_id |-> S(<<"T","E","S","T","1","2","3","4","5","6">>),
          terminal_id |-> S(<<"0","0","0","0","0","0","0","0">>),
          acquiring_institution_id |-> S(<<"0","0","0","0","8","9">>),
          forwarding_institution_id |-> S(<<"0","0","0","0","8","9">>) ],
      etp_pos_secure |->
        [ security_level_indicator |-> S(<<"u","n","a","u","t","h","e","n","t","i","c","a","t","e","d">>) ] ]

edge_case_payload(application_id) ==
    [ application_id |-> application_id,
      payment_initiation_type |-> <<"c","a","r","d","N","o","t","P","r","e","s","e","n","t","P","a","n">>,
      payment_information |->
        [ account_type |-> S(<<"d","e","f","a","u","l","t">>),
          payment_type |-> S(<<"i","n","s","t","a","l","l","m","e","n","t">>),
          transmission_date |-> S(<<"2","0","2","5","-","0","6","-","0","3">>),
          transmission_time |-> S(<<"2","3",":","4","5",":","3","0">>),
          local_transaction_date |-> S(<<"2","0","2","5","-","0","6","-","0","2">>),
          local_transaction_time |-> S(<<"2","3",":","4","5",":","3","0">>),
          settlement_date |-> S(<<"2","0","2","5","-","0","6","-","0","3">>),
          retrieval_reference_number |-> S(<<"0","0","0","0","0","7","7","7","7","7","7","7">>),
          system_trace_audit_number |-> S(<<"7","7","7","7","7","7">>) ],
      transaction_accept_method |-> <<"m","o","t","o">>,
      merchant_information |->
        [ card_acceptor_name |-> S(<<"E","d","g","e","C","a","s","e","M","e","r","c","h","a","n","t">>),
          format_card_acceptor |-> S(<<"3","2">>),
          merchant_category_code |-> S(<<"A","B","C","D">>) ],
      acquiring_information |->
        [ merchant_id |-> S(<<"U","N","K","N","O","W","N","1","2","3","4","5","6","7","8","9">>),
          terminal_id |-> S(<<"1","1","1","1","1","1","1","1">>),
          acquiring_institution_id |-> S(<<"0","0","0","0","7","8">>),
          forwarding_institution_id |-> S(<<"0","0","0","0","7","8">>) ],
      etp_pos_secure |->
        [ security_level_indicator |-> S(<<"u","n","a","u","t","h","e","n","t","i","c","a","t","e","d">>) ] ]

\* the request bodies the lifecycle is driven with: one that can be
\* APPROVED or PENDING, one that is DECLINED
ManualPayloads(application_id) ==
    { low_score_payload(application_id), edge_case_payload(application_id) }

\* the request the automatic driver builds for its application
DriverRequest(application_id, t) ==
    [ application_id |-> application_id,
      payment_initiation_type |-> <<"c","a","r","d","N","o","t","P","r","e","s","e","n","t","P","a","n">>,
      payment_information |->
        [ account_type |-> S(<<"d","e","f","a","u","l","t">>),
          payment_type |-> S(<<"s","i","n","g","l","e">>),
          transmission_date |-> S(FmtDate(t)),
          transmission_time |-> S(FmtTime(t)),
          local_transaction_date |-> S(FmtDate(t)),
          local_transaction_time |-> S(FmtTime(t)),
          settlement_date |-> S(FmtDate(t)),
          retrieval_reference_number |-> S(<<"0","0","0","0","0">> \o Tail_n(application_id, 6)),
          system_trace_audit_number |-> S(<<"0","0","0","0","0","0">>) ],
      transaction_accept_method |-> <<"e","l","e","c","t","r","o","n","i","c","C","o","m","m","e","r","c","e">>,
      merchant_information |->
        [ card_acceptor_name |-> S(<<"D","i","g","i","t","a","l","C","e","r","t","P","r","o","v","i","d","e","r">>),
          format_card_acceptor |-> S(<<"3","2">>),
          merchant_category_code |-> S(<<"1","2","3","4">>) ],
      acquiring_information |->
        [ merchant_id |-> S(<<"A","B","C">> \o Tail_n(application_id, 9)),
          terminal_id |-> S(<<"0","0","0","0","0","0","0","0">>),
          acquiring_institution_id |-> S(<<"0","0","0","0","3","1">>),
          forwarding_institution_id |-> S(<<"0","0","0","0","3","1">>) ],
      etp_pos_secure |->
        [ security_level_indicator |-> S(<<"u","n","a","u","t","h","e","n","t","i","c","a","t","e","d">>) ] ]

(***************************************************************************)
(* State: the four files of the store, the clock, the background tasks     *)
(* started by submit, the last HTTP response, and how many more manual     *)
(* validations and manual issues the operator will carry through.          *)
(***************************************************************************)
NoResp == [op |-> "", target |-> <<>>, code |-> 0, detail |-> "", certificate_id |-> <<>>]

Response(op, target, code, detail, certificate_id) ==
    [op |-> op, target |-> target, code |-> code, detail |-> detail,
     certificate_id |-> certificate_id]

\* the action text of an audit entry with the values formatted into it
Act(text, score, note, certificate_id) ==
    [text |-> text, score |-> score, note |-> note, certificate_id |-> certificate_id]

\* the validation engine has not been called on its own
NoCalls == [request |-> <<>>, calls |-> <<>>]

Init ==
    /\ applications = <<>>
    /\ certificates = <<>>
    /\ payments = <<>>
    /\ audit_logs = <<>>
    /\ now \in StartTimes
    /\ t0 = now
    /\ tasks = <<>>
    /\ resp = NoResp
    /\ budget = [validations |-> MaxManualValidations, issues |-> MaxManualIssues,
                 apps |-> MaxApps]
    /\ faults_left = 0
    /\ engine = NoCalls

\* the same start, in an environment where one write to the store can fail
\* and the operator leaves payment validation to the automatic driver
InitFail ==
    /\ applications = <<>>
    /\ certificates = <<>>
    /\ payments = <<>>
    /\ audit_logs = <<>>
    /\ now \in StartTimes
    /\ t0 = now
    /\ tasks = <<>>
    /\ resp = NoResp
    /\ budget = [validations |-> 0, issues |-> MaxManualIssues, apps |-> MaxApps]
    /\ faults_left = MaxFaults
    /\ engine = NoCalls

Commit(ctx, plan) ==
    /\ applications' = ctx.st.applications
    /\ certificates' = ctx.st.certificates
    /\ payments' = ctx.st.payments
    /\ audit_logs' = ctx.st.audit_logs
    /\ faults_left' = IF Faulted(ctx, plan) THEN faults_left - 1 ELSE faults_left

AppIds == {applications[i].application_id : i \in 1..Len(applications)}

CertIds == {certificates[i].certificate_id : i \in 1..Len(certificates)}

Targets == AppIds \cup {tasks[i].application_id : i \in 1..Len(tasks)} \cup {UnknownAppId}

\* a driver that is run up to its first audit entry before submit returns
add_task_and_run(application_id, t) ==
    Append(tasks, [application_id |-> application_id, pc |-> "sleep_payment",
                   wake |-> t + 7, result |-> <<>>])

\* background_tasks.add_task: the driver starts after the response and
\* begins with sleep(2)
add_task(application_id, t) ==
    Append(tasks, [application_id |-> application_id, pc |-> "sleep_verify",
                   wake |-> t + 2, result |-> <<>>])

\* POST /apply
submit_application(name, certificate_type, plan) ==
    /\ Len(tasks) < budget.apps
    /\ LET application_id == generate_application_id(Begin, now)
           app_record ==
               [application_id |-> application_id, status |-> "Pending",
                current_step |-> "Document Verification", submission_date |-> now,
                name |-> name, certificate_type |-> certificate_type,
                auto_processing |-> TRUE,
                history |-> << [step |-> "Submitted", timestamp |-> now],
                               [step |-> "Documents Received", timestamp |-> now + 60] >>]
       IN  \E c1 \in {_write_json_file(Begin, "applications",
                                       Append(applications, app_record), plan)} :
           \E c2 \in {add_audit_log(c1, application_id,
                          Act("Application submitted - auto-processing initiated", 0, "", <<>>),
                          now, plan)} :
              /\ Commit(c2, plan)
              /\ IF c2.exc = ""
                 THEN /\ tasks' = add_task(application_id, now)
                      /\ resp' = Response("apply", application_id, 201, "Pending", <<>>)
                 ELSE /\ tasks' = tasks
                      /\ resp' = Response("apply", application_id, 500, c2.exc, <<>>)
    /\ UNCHANGED <<now, t0, budget, engine>>

\* a branch that lets every result but DECLINED through
is_not_declined(vr) == vr.overall_status # "DECLINED"

\* the branch taken on a validation result, in the driver and in the manual
\* handler alike
is_approved(vr) == vr.overall_status = "APPROVED"

\* an evaluation that stores its result as a payment record
evaluated_and_recorded(ctx, vr) ==
    [ctx EXCEPT !.st.payments = Append(@, [validation_result |-> ResultDict(vr)])]

\* `await payment_validator.validate_payment(...)` in a handler: the call
\* touches no file; it raises when a rubric raises
evaluated(ctx, vr) == IF vr.raised THEN Raise(ctx, "TypeError") ELSE ctx

\* the except clause of process_application_automatically
Handled(ctx, application_id, plan) ==
    IF ctx.exc = "" THEN ctx
    ELSE add_audit_log([ctx EXCEPT !.exc = ""], application_id,
                       Act("Auto-processing failed", 0, ctx.exc, <<>>), now, plan)

\* where the task stands after a step: c is the context after the try body,
\* h the context after the except clause
NextPc(c, h, ok) == IF c.exc = "" THEN ok ELSE IF h.exc = "" THEN "failed" ELSE "crashed"

\* process_application_automatically: after sleep(2)
DriverStart(i, plan) ==
    /\ tasks[i].pc = "sleep_verify"
    /\ now >= tasks[i].wake
    /\ \E id \in {tasks[i].application_id} :
       \E c1 \in {add_audit_log(Begin, id, Act("Starting automatic processing", 0, "", <<>>),
                                now, plan)} :
       \E h \in {Handled(c1, id, plan)} :
          /\ Commit(h, plan)
          /\ tasks' = [tasks EXCEPT ![i].pc = NextPc(c1, h, "sleep_payment"),
                                    ![i].wake = now + 5]
    /\ UNCHANGED <<now, t0, resp, budget, engine>>

\* after sleep(5): build the request and run validate_payment
DriverEvaluate(i, rnd, plan) ==
    /\ tasks[i].pc = "sleep_payment"
    /\ now >= tasks[i].wake
    /\ \E id \in {tasks[i].application_id} :
       \E vr \in {validate_payment(DriverRequest(id, now), rnd, now)} :
       \E c1 \in {evaluated(Begin, vr)} :
       \E h \in {Handled(c1, id, plan)} :
          /\ Commit(h, plan)
          /\ tasks' = [tasks EXCEPT ![i].pc = NextPc(c1, h, "validating"),
                                    ![i].result = IF vr.raised THEN <<>> ELSE <<vr>>]
    /\ UNCHANGED <<now, t0, resp, budget, engine>>

\* validate_payment has returned: apply the result
DriverApply(i, plan) ==
    /\ tasks[i].pc = "validating"
    /\ \E id \in {tasks[i].application_id}, vr \in {tasks[i].result[1]} :
       \E c1 \in {IF is_approved(vr)
                  THEN internal_validate_payment_success(Begin, id, vr, now, plan)
                  ELSE add_audit_log(Begin, id,
                           Act("Payment validation failed", vr.overall_score,
                               vr.overall_status, <<>>), now, plan)} :
       \E c2 \in {IF is_approved(vr)
                  THEN add_audit_log(c1, id,
                           Act("Payment auto-validated successfully", vr.overall_score,
                               "", <<>>), now, plan)
                  ELSE internal_validate_payment_failure(c1, id, vr, now, plan)} :
       \E h \in {Handled(c2, id, plan)} :
          /\ Commit(h, plan)
          /\ tasks' = [tasks EXCEPT
                          ![i].pc = NextPc(c2, h, IF is_approved(vr)
                                                  THEN "sleep_issue" ELSE "done"),
                          ![i].wake = now + 3]
    /\ UNCHANGED <<now, t0, resp, budget, engine>>

\* after sleep(3): issue the certificate
DriverIssue(i, plan) ==
    /\ tasks[i].pc = "sleep_issue"
    /\ now >= tasks[i].wake
    /\ \E id \in {tasks[i].application_id} :
       \E c1 \in {internal_issue_certificate(Begin, id, now, plan)} :
       \E c2 \in {add_audit_log(c1, id,
                      Act("Certificate auto-issued successfully", 0, "", <<>>), now, plan)} :
       \E h \in {Handled(c2, id, plan)} :
          /\ Commit(h, plan)
          /\ tasks' = [tasks EXCEPT ![i].pc = NextPc(c2, h, "done")]
    /\ UNCHANGED <<now, t0, resp, budget, engine>>

\* POST /validate-payment-manual.  The handler awaits validate_payment, which
\* touches no file and completes within the second, and then applies the
\* result without a further suspension: the step is the whole handler.
validate_payment_manual(request, rnd, plan) ==
    /\ \E id \in {request.application_id} :
       \E vr \in {validate_payment(request, rnd, now)} :
       \E c0 \in {evaluated(Begin, vr)} :
       \E c1 \in {IF is_approved(vr)
                  THEN internal_validate_payment_success(c0, id, vr, now, plan)
                  ELSE internal_validate_payment_failure(c0, id, vr, now, plan)} :
       \E c2 \in {IF is_approved(vr)
                  THEN add_audit_log(c1, id,
                           Act("Payment manually validated", vr.overall_score, "", <<>>),
                           now, plan)
                  ELSE add_audit_log(c1, id,
                           Act("Payment manual validation failed", vr.overall_score, "", <<>>),
                           now, plan)} :
          /\ c2.exc = "" => budget.validations > 0
          /\ Commit(c2, plan)
          /\ budget' = IF c2.exc = "" THEN [budget EXCEPT !.validations = @ - 1] ELSE budget
          /\ resp' = IF c2.exc = ""
                     THEN Response("validate", id, 200, vr.overall_status, <<>>)
                     ELSE Response("validate", id, 500, c2.exc, <<>>)
    /\ UNCHANGED <<now, t0, tasks, engine>>

\* POST /issue-certificate
issue_certificate(application_id, plan) ==
    /\ \E c1 \in {internal_issue_certificate(Begin, application_id, now, plan)} :
       \E k \in {FindFirst(c1.st.certificates, "application_id", application_id)} :
       \E found \in {IF k = 0 THEN <<>> ELSE c1.st.certificates[k].certificate_id} :
       \* certificate['certificate_id'] raises when no record was found
       \E c2 \in {IF c1.exc = "" /\ k = 0 THEN Raise(c1, "TypeError") ELSE c1} :
       \E c3 \in {add_audit_log(c2, application_id,
                      Act("Certificate manually issued", 0, "", found), now, plan)} :
          /\ c3.exc = "" => budget.issues > 0
          /\ Commit(c3, plan)
          /\ budget' = IF c3.exc = "" THEN [budget EXCEPT !.issues = @ - 1] ELSE budget
          /\ resp' = IF c3.exc = ""
                     THEN Response("issue", application_id, 200, "Issued", found)
                     ELSE Response("issue", application_id, 500, c3.exc, <<>>)
    /\ UNCHANGED <<now, t0, tasks, engine>>

\* a revocation that flips the flag instead of setting it
mark_toggled(cert, t) ==
    Put(Put(Put(cert, "status", IF cert.revoked THEN "Valid" ELSE "Revoked"),
            "revoked", ~cert.revoked), "revocation_date", t)

\* the three assignments revoke_certificate makes to the record it found
mark_revoked(cert, t) ==
    Put(Put(Put(cert, "status", "Revoked"), "revoked", TRUE), "revocation_date", t)

\* POST /certificate/{certificate_id}/revoke
revoke_certificate(certificate_id, plan) ==
    /\ \E cert_index \in {FindFirst(certificates, "certificate_id", certificate_id)} :
          IF cert_index = 0
          THEN /\ resp' = Response("revoke", certificate_id, 404, "Certificate not found", <<>>)
               /\ UNCHANGED <<applications, certificates, payments, audit_logs, faults_left>>
          ELSE \E revoked \in {mark_revoked(certificates[cert_index], now)} :
               \E c1 \in {_write_json_file(Begin, "certificates",
                              [certificates EXCEPT ![cert_index] = revoked], plan)} :
                  /\ Commit(c1, plan)
                  /\ resp' = IF c1.exc = ""
                             THEN Response("revoke", certificate_id, 200, "Revoked", <<>>)
                             ELSE Response("revoke", certificate_id, 500, c1.exc, <<>>)
    /\ UNCHANGED <<now, t0, tasks, budget, engine>>

\* a timer that has expired, or an evaluation that is running, completes
\* within the current second
Due ==
    \E i \in 1..Len(tasks) :
          \/ tasks[i].pc \in {"sleep_verify", "sleep_payment", "sleep_issue"} /\ now >= tasks[i].wake
          \/ tasks[i].pc = "validating"

Sleeping == {i \in 1..Len(tasks) : tasks[i].pc \in {"sleep_verify", "sleep_payment", "sleep_issue"}}

\* a clock that moves only while no task sleeps, so that no timer expires
TickWhenIdle ==
    /\ ~Due
    /\ Sleeping = {}
    /\ tasks # <<>>
    /\ now - t0 < MaxTime
    /\ now' = now + 1
    /\ UNCHANGED <<applications, certificates, payments, audit_logs, t0, tasks, resp,
                   budget, faults_left, engine>>

\* Time passes.  While a task sleeps the clock moves on to the next timer
\* expiry; the clock is read at the instants at which something can happen.
\* The run is observed from its first submit for MaxTime seconds, and until
\* every timer has fired.
Tick ==
    /\ ~Due
    /\ IF Sleeping # {}
       THEN \E i \in Sleeping :
               /\ \A j \in Sleeping : tasks[i].wake <= tasks[j].wake
               /\ now' = tasks[i].wake
       ELSE /\ tasks # <<>>
            /\ now - t0 < MaxTime
            /\ now' = now + 1
    /\ UNCHANGED <<applications, certificates, payments, audit_logs, t0, tasks, resp,
                   budget, faults_left, engine>>

Next ==
    \/ \E plan \in FaultPlans : submit_application("Alice", "Softcert", plan)
    \/ \E i \in 1..Len(tasks), plan \in FaultPlans : DriverStart(i, plan)
    \/ \E i \in 1..Len(tasks), rnd \in RndSamples, plan \in FaultPlans : DriverEvaluate(i, rnd, plan)
    \/ \E i \in 1..Len(tasks), plan \in FaultPlans : DriverApply(i, plan)
    \/ \E i \in 1..Len(tasks), plan \in FaultPlans : DriverIssue(i, plan)
    \/ \E id \in Targets, rnd \in RndSamples, plan \in FaultPlans :
          \E request \in ManualPayloads(id) : validate_payment_manual(request, rnd, plan)
    \/ \E id \in Targets, plan \in FaultPlans : issue_certificate(id, plan)
    \/ \E cid \in CertIds \cup {UnknownCertId}, plan \in FaultPlans : revoke_certificate(cid, plan)
    \/ Tick

Spec == Init /\ [][Next]_vars

SpecFail == InitFail /\ [][Next]_vars

\* a step of some automatic driver
DriverStep ==
    \E i \in 1..Len(tasks), plan \in FaultPlans :
        \/ DriverStart(i, plan)
        \/ \E rnd \in RndSamples : DriverEvaluate(i, rnd, plan)
        \/ DriverApply(i, plan)
        \/ DriverIssue(i, plan)

\* The event loop runs a driver whose timer has expired or whose evaluation
\* has returned, and time passes; requests arrive or do not.
SpecLive == Init /\ [][Next]_vars /\ WF_vars(DriverStep) /\ WF_vars(Tick)

(***************************************************************************)
(* The automatic drivers on their own: applications are submitted and      *)
(* nobody validates or issues by hand                                      *)
(***************************************************************************)
\* at most this many applications are submitted, each with its driver
MaxDrivers == 2

InitDrivers ==
    /\ applications = <<>>
    /\ certificates = <<>>
    /\ payments = <<>>
    /\ audit_logs = <<>>
    /\ now \in StartTimes
    /\ t0 = now
    /\ tasks = <<>>
    /\ resp = NoResp
    /\ budget = [validations |-> 0, issues |-> 0, apps |-> MaxDrivers]
    /\ faults_left = 0
    /\ engine = NoCalls

\* a step of the driver of task i
DriverStepOf(i) ==
    /\ i <= Len(tasks)
    /\ \E plan \in FaultPlans :
          \/ DriverStart(i, plan)
          \/ \E rnd \in RndSamples : DriverEvaluate(i, rnd, plan)
          \/ DriverApply(i, plan)
          \/ DriverIssue(i, plan)

NextDrivers ==
    \/ \E plan \in FaultPlans : submit_application("Alice", "Softcert", plan)
    \/ \E i \in 1..Len(tasks), plan \in FaultPlans : DriverStart(i, plan)
    \/ \E i \in 1..Len(tasks), rnd \in RndSamples, plan \in FaultPlans : DriverEvaluate(i, rnd, plan)
    \/ \E i \in 1..Len(tasks), plan \in FaultPlans : DriverApply(i, plan)
    \/ \E i \in 1..Len(tasks), plan \in FaultPlans : DriverIssue(i, plan)
    \/ Tick

\* The event loop runs every driver whose timer has expired or whose
\* evaluation has returned, and time passes.
SpecDrivers ==
    InitDrivers /\ [][NextDrivers]_vars
    /\ \A i \in 1..MaxDrivers : WF_vars(DriverStepOf(i))
    /\ WF_vars(Tick)

(***************************************************************************)
(* The queries                                                             *)
(***************************************************************************)
\* GET /certificate/{identifier}: the certificate the answer is made from,
\* looked up by certificate id first and by application id second; <<>>
\* when no certificate matches
get_certificate_info(identifier) ==
    LET by_certificate_id == FindFirst(certificates, "certificate_id", identifier)
        by_application_id == FindFirst(certificates, "application_id", identifier)
    IN  IF by_certificate_id # 0 THEN <<certificates[by_certificate_id]>>
        ELSE IF by_application_id # 0 THEN <<certificates[by_application_id]>>
        ELSE <<>>

\* a listing that keeps the order of the audit file
in_file_order(logs) == logs

\* list.sort(key=timestamp): ascending, entries with equal timestamps keep
\* their order
RECURSIVE sort_by_timestamp(_)
sort_by_timestamp(logs) ==
    IF logs = <<>> THEN <<>>
    ELSE LET sorted == sort_by_timestamp(SubSeq(logs, 1, Len(logs) - 1))
             x == logs[Len(logs)]
             n == Cardinality({i \in 1..Len(sorted) : sorted[i].timestamp <= x.timestamp})
         IN  SubSeq(sorted, 1, n) \o <<x>> \o SubSeq(sorted, n + 1, Len(sorted))

\* DataManager.get_audit_trail
get_audit_trail(application_id) ==
    LET matches(log) == log.application_id = application_id
        app_logs == sort_by_timestamp(SelectSeq(audit_logs, matches))
    IN  [ application_id |-> application_id,
          total_entries |-> Len(app_logs),
          audit_trail |-> app_logs,
          first_entry |-> IF app_logs # <<>> THEN app_logs[1].timestamp ELSE None,
          last_entry |-> IF app_logs # <<>> THEN app_logs[Len(app_logs)].timestamp ELSE None ]

\* GET /audit-trail
audit_trail_query(application_id) ==
    /\ resp' = [op |-> "audit-trail", target |-> application_id, code |-> 200,
                body |-> get_audit_trail(application_id)]
    /\ UNCHANGED <<applications, certificates, payments, audit_logs, now, t0, tasks,
                   budget, faults_left, engine>>

\* The audit file as the query can find it: up to MaxLogLen entries of two
\* applications.  Timestamps come from datetime.now(), the local wall
\* clock, which can be set back, so that they need not ascend in the file.
MaxLogLen == 3

LogAppIds == {SampleAppId, UnknownAppId}

LogTimes == {82795, 82797, 82802}

LogEntries ==
    [application_id : LogAppIds,
     action : {Act("Starting automatic processing", 0, "", <<>>)},
     timestamp : LogTimes]

InitAudit ==
    /\ applications = <<>>
    /\ certificates = <<>>
    /\ payments = <<>>
    /\ audit_logs \in UNION {[1..n -> LogEntries] : n \in 0..MaxLogLen}
    /\ now \in StartTimes
    /\ t0 = now
    /\ tasks = <<>>
    /\ resp = NoResp
    /\ budget = [validations |-> 0, issues |-> 0, apps |-> 0]
    /\ faults_left = 0
    /\ engine = NoCalls

NextAudit == \E application_id \in LogAppIds : audit_trail_query(application_id)

SpecAudit == InitAudit /\ [][NextAudit]_vars

(***************************************************************************)
(* Several submits and issues within the seconds before the first driver   *)
(* wakes up                                                                *)
(***************************************************************************)
MaxIdApps == 2

MaxIdValidations == 2

MaxIdIssues == 2

InitIds ==
    /\ applications = <<>>
    /\ certificates = <<>>
    /\ payments = <<>>
    /\ audit_logs = <<>>
    /\ now \in StartTimes
    /\ t0 = now
    /\ tasks = <<>>
    /\ resp = NoResp
    /\ budget = [validations |-> MaxIdValidations, issues |-> MaxIdIssues, apps |-> MaxIdApps]
    /\ faults_left = 0
    /\ engine = NoCalls

NextIds ==
    \/ \E plan \in FaultPlans : submit_application("Alice", "Softcert", plan)
    \/ \E id \in Targets, rnd \in RndSamples, plan \in FaultPlans :
          \E request \in ManualPayloads(id) : validate_payment_manual(request, rnd, plan)
    \/ \E id \in Targets, plan \in FaultPlans : issue_certificate(id, plan)
    \/ Tick

SpecIds == InitIds /\ [][NextIds]_vars

medium_score_payload(application_id) ==
    [ application_id |-> application_id,
      payment_initiation_type |-> <<"c","a","r","d","N","o","t","P","r","e","s","e","n","t","P","a","n">>,
      payment_information |->
        [ account_type |-> S(<<"d","e","f","a","u","l","t">>),
          payment_type |-> S(<<"r","e","c","u","r","r","i","n","g">>),
          transmission_date |-> S(<<"2","0","2","5","-","0","6","-","0","3">>),
          transmission_time |-> S(<<"1","6",":","4","5",":","2","0">>),
          local_transaction_date |-> S(<<"2","0","2","5","-","0","6","-","0","3">>),
          local_transaction_time |-> S(<<"1","6",":","4","5",":","2","0">>),
          settlement_date |-> S(<<"2","0","2","5","-","0","6","-","0","3">>),
          retrieval_reference_number |-> S(<<"0","0","0","0","0","5","5","5","5","5","5","5">>),
          system_trace_audit_number |-> S(<<"5","5","5","5","5","5">>) ],
      transaction_accept_method |-> <<"e","l","e","c","t","r","o","n","i","c","C","o","m","m","e","r","c","e">>,
      merchant_information |->
        [ card_acceptor_name |-> S(<<"R","e","g","u","l","a","r","M","e","r","c","h","a","n","t">>),
          format_card_acceptor |-> S(<<"3","2">>),
          merchant_category_code |-> S(<<"9","0","1","2">>) ],
      acquiring_information |->
        [ merchant_id |-> S(<<"X","Y","Z","4","5","6","7","8","9","0","1","2">>),
          terminal_id |-> S(<<"4","5","6","7","8","9","0","1">>),
          acquiring_institution_id |-> S(<<"0","0","0","0","6","7">>),
          forwarding_institution_id |-> S(<<"0","0","0","0","6","7">>) ],
      etp_pos_secure |->
        [ security_level_indicator |-> S(<<"u","n","a","u","t","h","e","n","t","i","c","a","t","e","d">>) ] ]

critical_failure_payload ==
    [ application_id |-> <<>>,
      payment_initiation_type |-> <<>>,
      payment_information |->
        [ account_type |-> S(<<>>),
          payment_type |-> S(<<"i","n","v","a","l","i","d","T","y","p","e">>),
          transmission_date |-> S(<<"i","n","v","a","l","i","d","-","d","a","t","e">>),
          transmission_time |-> S(<<"i","n","v","a","l","i","d","-","t","i","m","e">>),
          local_transaction_date |-> S(<<"2","0","2","5","-","1","3","-","4","5">>),
          local_transaction_time |-> S(<<"2","5",":","9","9",":","9","9">>),
          settlement_date |-> S(<<>>),
          retrieval_reference_number |-> S(<<>>),
          system_trace_audit_number |-> S(<<>>) ],
      transaction_accept_method |-> <<>>,
      merchant_information |->
        [ card_acceptor_name |-> S(<<>>),
          format_card_acceptor |-> S(<<>>),
          merchant_category_code |-> S(<<>>) ],
      acquiring_information |->
        [ merchant_id |-> S(<<"X","Y">>),
          terminal_id |-> S(<<"0","0","0","0","0","0","0","0">>),
          acquiring_institution_id |-> S(<<>>),
          forwarding_institution_id |-> S(<<>>) ],
      etp_pos_secure |->
        [ security_level_indicator |-> S(<<"u","n","k","n","o","w","n">>) ] ]

(***************************************************************************)
(* The validation engine on its own: calls of validate_payment             *)
(***************************************************************************)
\* at most this many calls are made on one request
MaxCalls == 2

\* the clock at a call: 22:59:55 and 23:00:02
EvalTimes == {82795, 82802}

\* the keys of the bundles that a rubric reads
InspectedFields ==
    { <<"payment_information", "transmission_date">>,
      <<"payment_information", "transmission_time">>,
      <<"payment_information", "local_transaction_date">>,
      <<"payment_information", "local_transaction_time">>,
      <<"payment_information", "payment_type">>,
      <<"payment_information", "system_trace_audit_number">>,
      <<"merchant_information", "merchant_category_code">>,
      <<"merchant_information", "card_acceptor_name">>,
      <<"acquiring_information", "merchant_id">>,
      <<"acquiring_information", "terminal_id">>,
      <<"etp_pos_secure", "security_level_indicator">> }

\* values a Dict[str, Any] bundle may hold besides a proper string: the
\* empty string, null and a number
OddValues == {S(<<>>), None, Num(<<"1", "2", "3", "4">>)}

\* the request with one value of one bundle replaced
WithValue(request, field, value) == [request EXCEPT ![field[1]] = Put(@, field[2], value)]

\* the request with one key of one bundle left out
WithoutKey(request, field) ==
    [request EXCEPT ![field[1]] = [k \in (DOMAIN @) \ {field[2]} |-> @[k]]]

\* the request that the driver builds at 22:59:55 for the first application
\* submitted in that second
SampleDriverRequest ==
    CHOOSE r \in { DriverRequest(generate_application_id([st |-> [applications |-> <<>>]], t), t)
                      : t \in StartTimes } : TRUE

SamplePayloads ==
    { high_score_payload(SampleAppId), medium_score_payload(SampleAppId),
      low_score_payload(SampleAppId), edge_case_payload(SampleAppId),
      critical_failure_payload, SampleDriverRequest }

\* the sample payloads, and each of them with one inspected field empty,
\* null, a number or missing
EvalRequests ==
    SamplePayloads
    \cup { WithValue(request, field, value) :
              request \in SamplePayloads, field \in InspectedFields, value \in OddValues }
    \cup { WithoutKey(request, field) : request \in SamplePayloads, field \in InspectedFields }

\* nothing has been submitted; a request is at hand
InitEvaluate ==
    /\ applications = <<>>
    /\ certificates = <<>>
    /\ payments = <<>>
    /\ audit_logs = <<>>
    /\ now \in StartTimes
    /\ t0 = now
    /\ tasks = <<>>
    /\ resp = NoResp
    /\ budget = [validations |-> 0, issues |-> 0, apps |-> 0]
    /\ faults_left = 0
    /\ engine \in [request : EvalRequests, calls : {<<>>}]

\* one call of validate_payment on the request, at start_time: the call is
\* kept with the three rubric results it joined
Evaluate(rnd, start_time) ==
    /\ engine.request # <<>>
    /\ Len(engine.calls) < MaxCalls
    /\ start_time >= now
    /\ now' = start_time
    /\ engine' = [engine EXCEPT !.calls =
                     Append(@, [ start_time |-> start_time,
                                 functional_result |-> validate_functional(engine.request),
                                 performance_result |-> validate_performance(engine.request, rnd),
                                 security_result |->
                                     validate_security(engine.request, HourOf(start_time)),
                                 result |-> validate_payment(engine.request, rnd, start_time) ])]
    /\ UNCHANGED <<applications, certificates, payments, audit_logs, t0, tasks, resp,
                   budget, faults_left>>

NextEvaluate == \E rnd \in RndSamples, start_time \in EvalTimes : Evaluate(rnd, start_time)

SpecEvaluate == InitEvaluate /\ [][NextEvaluate]_vars

(***************************************************************************)
(* The validation engine on its own: the weighing of three rubric scores   *)
(***************************************************************************)
\* max_score of every rubric
MaxScore == 100

\* a rubric result of which only the score matters
ScoreOnly(score) == [score |-> score, details |-> <<>>, issues |-> <<>>, raised |-> FALSE]

\* nothing has been submitted; the functional and the performance rubric
\* have returned their scores
InitScores ==
    /\ applications = <<>>
    /\ certificates = <<>>
    /\ payments = <<>>
    /\ audit_logs = <<>>
    /\ now \in StartTimes
    /\ t0 = now
    /\ tasks = <<>>
    /\ resp = NoResp
    /\ budget = [validations |-> 0, issues |-> 0, apps |-> 0]
    /\ faults_left = 0
    /\ engine \in [functional_score : 0..MaxScore, performance_score : 0..MaxScore,
                   results : {<<>>}]

\* the security rubric returns its score and validate_payment weighs the three
CombineScores(security_score) ==
    /\ engine.results = <<>>
    /\ engine' = [engine EXCEPT !.results =
                     << CombineResults(ScoreOnly(engine.functional_score),
                                       ScoreOnly(engine.performance_score),
                                       ScoreOnly(security_score), now) >>]
    /\ UNCHANGED <<applications, certificates, payments, audit_logs, now, t0, tasks, resp,
                   budget, faults_left>>

NextScores == \E security_score \in 0..MaxScore : CombineScores(security_score)

SpecScores == InitScores /\ [][NextScores]_vars

(***************************************************************************)
(* Properties of the lifecycle                                             *)
(***************************************************************************)
\* the record of application id in apps (id is known)
AppOf(apps, id) == apps[FindFirst(apps, "application_id", id)]

Validated(app) == GetOr(app, "payment_validated", FALSE)

\* the certificate records linked to application id
CertsOf(certs, id) == {k \in 1..Len(certs) : certs[k].application_id = id}

ReachedIssued(app) ==
    \E h \in 1..Len(app.history) : app.history[h].step = "Certificate Auto-Issued"

HasCredential(app) == "certificate_id" \in DOMAIN app

StoreUnchanged == UNCHANGED <<applications, certificates, payments, audit_logs>>

PreconditionFailed == "Payment must be validated before certificate issuance"

NotFound == "Application not found"

\* C1: a step that brings an application to status Issued (a manual or
\* automatic issue) starts from a state in which that application's
\* payment_validated flag is true, and leaves it true.
C1_IssuedOnlyIfPaymentValidated ==
    [][\A i \in 1..Len(applications') :
          (/\ applications'[i].status = "Issued"
           /\ (i > Len(applications) \/ applications'[i] # applications[i]))
          => /\ i <= Len(applications)
             /\ Validated(applications[i])
             /\ Validated(applications'[i])]_vars

\* an application has been issued
C1_SomeApplicationIssued ==
    \E i \in 1..Len(applications) :
        applications[i].status = "Issued" /\ HasCredential(applications[i])

\* C2: an issue (manual or by the driver) on an application that already has
\* a credential id fails, and leaves the application and certificate
\* collections unchanged.
C2_SecondIssueFailsAlreadyIssued ==
    [][/\ \A id \in AppIds, plan \in FaultPlans :
             issue_certificate(id, plan) /\ HasCredential(AppOf(applications, id))
             => resp'.code # 200 /\ UNCHANGED <<applications, certificates>>
       /\ \A i \in 1..Len(tasks), plan \in FaultPlans :
             (/\ DriverIssue(i, plan)
              /\ tasks[i].application_id \in AppIds
              /\ HasCredential(AppOf(applications, tasks[i].application_id)))
             => tasks'[i].pc # "done" /\ UNCHANGED <<applications, certificates>>]_vars

\* C3: at most one certificate record is linked to any application id.
C3_AtMostOneCertificatePerApplication ==
    \A k1, k2 \in 1..Len(certificates) :
        certificates[k1].application_id = certificates[k2].application_id => k1 = k2

\* C4: every certificate's application has been moved to Issued, and every
\* application that was moved to Issued has a certificate, also when a write
\* to the store has failed.
C4_CertificateIffIssued ==
    /\ \A k \in 1..Len(certificates) :
          \E i \in 1..Len(applications) :
              /\ applications[i].application_id = certificates[k].application_id
              /\ ReachedIssued(applications[i])
    /\ \A i \in 1..Len(applications) :
          ReachedIssued(applications[i])
          => CertsOf(certificates, applications[i].application_id) # {}

\* C5: a certificate whose revoked flag is true is, after any step, still in
\* the store with revoked true and status Revoked.
C5_RevokedIsMonotonic ==
    [][\A k \in 1..Len(certificates) :
          certificates[k].revoked
          => /\ k <= Len(certificates')
             /\ certificates'[k].certificate_id = certificates[k].certificate_id
             /\ certificates'[k].revoked
             /\ certificates'[k].status = "Revoked"]_vars

\* a certificate is revoked and a manual issue has succeeded since
C5_IssueAfterRevoke ==
    /\ \E k \in 1..Len(certificates) : certificates[k].revoked
    /\ resp.op = "issue"
    /\ resp.code = 200

\* C6: a revoke on a certificate that is already revoked fails or leaves the
\* certificate record, its revocation timestamp included, as it was; the
\* certificate stays revoked.
C6_SecondRevokeIsNoOpOrFails ==
    [][\A k \in 1..Len(certificates), plan \in FaultPlans :
          certificates[k].revoked /\ revoke_certificate(certificates[k].certificate_id, plan)
          => /\ resp'.code # 200 \/ certificates'[k] = certificates[k]
             /\ certificates'[k].revoked]_vars

\* C7: an issue on a known application whose payment_validated flag is not
\* true fails with the payment-must-be-validated error; no certificate is
\* created and no application record changes.  The manual call answers with
\* the error; the driver's call ends the task with the error in the audit log.
C7_IssueWithoutPaymentFails ==
    [][/\ \A id \in AppIds, plan \in FaultPlans :
             issue_certificate(id, plan) /\ ~Validated(AppOf(applications, id))
             => /\ resp' = Response("issue", id, 500, PreconditionFailed, <<>>)
                /\ StoreUnchanged
       /\ \A i \in 1..Len(tasks), plan \in FaultPlans :
             (/\ DriverIssue(i, plan)
              /\ tasks[i].application_id \in AppIds
              /\ ~Validated(AppOf(applications, tasks[i].application_id)))
             => /\ tasks'[i].pc \in {"failed", "crashed"}
                /\ UNCHANGED <<applications, certificates, payments>>]_vars

\* a manual issue on a known application was refused for want of a validated
\* payment
C7_IssueRefused ==
    /\ resp.op = "issue"
    /\ resp.target \in AppIds
    /\ resp.code = 500
    /\ resp.detail = PreconditionFailed

\* C8: a manual validation or an issue with an application id that no record
\* has, and a revoke with a certificate id that no record has, fail with the
\* not-found error and leave the four collections of the store unchanged.
C8_UnknownIdsFailNotFound ==
    [][/\ \A id \in Targets \ AppIds, rnd \in RndSamples, plan \in FaultPlans :
             \A request \in ManualPayloads(id) :
                 validate_payment_manual(request, rnd, plan)
                 => /\ resp' = Response("validate", id, 500, NotFound, <<>>)
                    /\ StoreUnchanged
       /\ \A id \in Targets \ AppIds, plan \in FaultPlans :
             issue_certificate(id, plan)
             => /\ resp' = Response("issue", id, 500, NotFound, <<>>)
                /\ StoreUnchanged
       /\ \A plan \in FaultPlans :
             revoke_certificate(UnknownCertId, plan)
             => /\ resp' = Response("revoke", UnknownCertId, 404, "Certificate not found", <<>>)
                /\ StoreUnchanged]_vars

\* a call with an unknown application id was answered while the store holds
\* an application and a certificate
C8_UnknownIdRefused ==
    /\ resp.target = UnknownAppId
    /\ resp.code = 500
    /\ resp.detail = NotFound
    /\ applications # <<>>
    /\ certificates # <<>>

\* C9: a step that applies a validation result (it adds the payment record
\* of the result) leaves the application Payment Validated, at step
\* Certificate Generation, with payment_validated true and a history entry
\* holding the score when the result is APPROVED; for any other result it
\* leaves it Payment Failed, at step Payment Review Required, with
\* payment_validated false and a history entry holding the score and the
\* failure reasons.
C9_ApplyValidationEffects ==
    [][Len(payments') = Len(payments) + 1
       => LET p == payments'[Len(payments')]
              a == AppOf(applications', p.application_id)
              h == a.history[Len(a.history)]
          IN  /\ p.application_id \in AppIds
              /\ p.overall_status = p.validation_result.overall_status
              /\ IF p.overall_status = "APPROVED"
                 THEN /\ a.status = "Payment Validated"
                      /\ a.current_step = "Certificate Generation"
                      /\ a.payment_validated = TRUE
                      /\ h.details = [score |-> p.validation_result.overall_score]
                 ELSE /\ a.status = "Payment Failed"
                      /\ a.current_step = "Payment Review Required"
                      /\ a.payment_validated = FALSE
                      /\ h.details = [score |-> p.validation_result.overall_score,
                                      reasons |-> p.validation_result.failure_reasons]]_vars

\* an APPROVED result and then another result were applied to an application
C9_ApprovedThenRejected ==
    /\ Len(payments) = 2
    /\ payments[1].overall_status = "APPROVED"
    /\ payments[2].overall_status # "APPROVED"
    /\ AppOf(applications, payments[2].application_id).status = "Payment Failed"

\* C10: a PENDING result moves the application as a DECLINED one does, to
\* Payment Failed with payment_validated false, and the payment record and
\* the stored result keep the status PENDING; the driver ends without a
\* certificate and without waiting to issue one.
C10_PendingTreatedAsDeclined ==
    [][/\ (/\ Len(payments') = Len(payments) + 1
           /\ payments'[Len(payments')].validation_result.overall_status \in {"PENDING", "DECLINED"})
          => LET p == payments'[Len(payments')]
                 a == AppOf(applications', p.application_id)
             IN  /\ a.status = "Payment Failed"
                 /\ a.current_step = "Payment Review Required"
                 /\ a.payment_validated = FALSE
                 /\ p.status = "Failed"
                 /\ p.overall_status = p.validation_result.overall_status
                 /\ a.payment_validation_details = p.validation_result
                 /\ certificates' = certificates
       /\ \A i \in 1..Len(tasks), plan \in FaultPlans :
             DriverApply(i, plan) /\ tasks[i].result[1].overall_status = "PENDING"
             => /\ tasks'[i].pc = "done"
                /\ Len(payments') = Len(payments) + 1
                /\ payments'[Len(payments')].validation_result.overall_status = "PENDING"]_vars

\* the driver has ended on a PENDING result
C10_DriverEndedOnPending ==
    \E i \in 1..Len(tasks) :
        /\ tasks[i].pc = "done"
        /\ tasks[i].result # <<>>
        /\ tasks[i].result[1].overall_status = "PENDING"
        /\ certificates = <<>>
        /\ \E j \in 1..Len(payments) : payments[j].overall_status = "PENDING"

(***************************************************************************)
(* Properties of the validation engine                                     *)
(***************************************************************************)
\* the exact weighted sum of a combined result, times ten
WeightedSum10(r) == 4 * r.functional_score + 3 * r.performance_score + 3 * r.security_score

C13_OverallIsFloor ==
    \A k \in 1..Len(engine.results) :
        engine.results[k].overall_score = WeightedSum10(engine.results[k]) \div 10

\* C13 (amended): for all rubric scores in 0..100 the overall score is
\* floor((4*functional + 3*performance + 3*security) / 10) or one less, and
\* one less only when 4*functional + 3*performance + 3*security is a
\* multiple of ten.
C13_OverallIsFloorOrOneLess ==
    \A k \in 1..Len(engine.results) :
        LET r == engine.results[k]
            exact == WeightedSum10(r) \div 10
        IN  /\ r.overall_score \in {exact - 1, exact}
            /\ r.overall_score >= 0
            /\ WeightedSum10(r) % 10 # 0 => r.overall_score = exact

\* scores whose weighted sum is exactly 70 were weighed to 69
C13_SeventyWeighedToSixtyNine ==
    /\ engine.results # <<>>
    /\ WeightedSum10(engine.results[1]) = 700
    /\ engine.results[1].overall_score = 69

\* the calls of validate_payment that returned a result
Returned == {k \in 1..Len(engine.calls) : ~engine.calls[k].result.raised}

C14_ScoresInRange ==
    \A k \in 1..Len(engine.calls) :
        LET c == engine.calls[k]
        IN  /\ ~c.functional_result.raised => c.functional_result.score \in 0..MaxScore
            /\ ~c.performance_result.raised => c.performance_result.score \in 10..MaxScore
            /\ ~c.security_result.raised => c.security_result.score \in 0..MaxScore
            /\ ~c.result.raised
               => /\ c.result.functional_score \in 0..MaxScore
                  /\ c.result.performance_score \in 10..MaxScore
                  /\ c.result.security_score \in 0..MaxScore
                  /\ c.result.overall_score \in 0..MaxScore

\* a request was scored at the top of the functional and the security
\* rubric, and another call of it below the top of the performance rubric
C14_TopScoresReached ==
    /\ \E k \in Returned :
          /\ engine.calls[k].result.functional_score = MaxScore
          /\ engine.calls[k].result.security_score = MaxScore
    /\ \E k \in Returned : engine.calls[k].result.performance_score < MaxScore

\* C15: two calls on the same request, at any two times, give the same
\* functional score and the same security score.
C15_SameFunctionalAndSecurityScores ==
    \A j, k \in 1..Len(engine.calls) :
        LET a == engine.calls[j]
            b == engine.calls[k]
        IN  /\ (~a.functional_result.raised /\ ~b.functional_result.raised)
               => a.functional_result.score = b.functional_result.score
            /\ (~a.security_result.raised /\ ~b.security_result.raised)
               => a.security_result.score = b.security_result.score

\* C16: on every request whose bundles are key/value maps, with keys missing
\* and values empty, null or not strings, each rubric and validate_payment
\* return a result.
C16_EvaluationNeverRaises ==
    \A k \in 1..Len(engine.calls) :
        /\ ~engine.calls[k].functional_result.raised
        /\ ~engine.calls[k].performance_result.raised
        /\ ~engine.calls[k].security_result.raised
        /\ ~engine.calls[k].result.raised

\* C18: the failure reasons of a result are the issues of the functional
\* rubric, then those of the performance rubric, then those of the security
\* rubric, each in its own order, although the security rubric completes
\* before the performance rubric.
C18_IssuesInArgumentOrder ==
    \A k \in Returned :
        LET c == engine.calls[k]
        IN  /\ c.result.failure_reasons = c.functional_result.issues
                                          \o c.performance_result.issues
                                          \o c.security_result.issues
            /\ c.result.functional_details = c.functional_result.details
            /\ c.result.performance_details = c.performance_result.details
            /\ c.result.security_details = c.security_result.details

\* a call returned in which each of the three rubrics raised an issue
C18_AllThreeRubricsHaveIssues ==
    \E k \in Returned :
        /\ engine.calls[k].functional_result.issues # <<>>
        /\ engine.calls[k].performance_result.issues # <<>>
        /\ engine.calls[k].security_result.issues # <<>>

(***************************************************************************)
(* Properties of the automatic driver                                      *)
(***************************************************************************)
\* C17: a call of validate_payment leaves the applications, certificates,
\* payments and audit-log collections as they are: the step of the driver in
\* which validate_payment returns its result changes none of them, and the
\* payments collection grows only in a step that applies a result.
C17_EvaluateLeavesStore ==
    [][/\ \A i \in 1..Len(tasks) :
             (/\ tasks[i].pc = "sleep_payment"
              /\ tasks'[i].pc = "validating"
              /\ tasks'[i].result # <<>>) => StoreUnchanged
       /\ payments' # payments
          => \/ \E i \in 1..Len(tasks) :
                   tasks[i].pc = "validating" /\ tasks'[i].pc # "validating"
             \/ budget'.validations = budget.validations - 1]_vars

\* validate_payment has returned to the driver and its result is not applied
\* yet: no payment is recorded
C17_ResultNotYetApplied ==
    \E i \in 1..Len(tasks) :
        /\ tasks[i].pc = "validating"
        /\ tasks[i].result # <<>>
        /\ payments = <<>>
        /\ Len(audit_logs) = 2

\* C20: in every run of the driver the steps come in this order: the audit
\* entry "Starting automatic processing", then validate_payment, then the
\* application of its result, which records a payment; the driver goes on to
\* issue only from an APPROVED result that was applied, and ends after a
\* result that is not APPROVED without issuing.
C20_DriverStepsInOrder ==
    [][\A i \in 1..Len(tasks) :
          tasks'[i].pc # tasks[i].pc
          => LET id == tasks[i].application_id
                 vr == tasks[i].result[1]
             IN  CASE tasks[i].pc = "sleep_verify" ->
                          /\ tasks'[i].pc = "sleep_payment"
                          /\ tasks'[i].result = <<>>
                          /\ audit_logs' = Append(audit_logs,
                                 [application_id |-> id,
                                  action |-> Act("Starting automatic processing", 0, "", <<>>),
                                  timestamp |-> now])
                   [] tasks[i].pc = "sleep_payment" ->
                          /\ tasks'[i].pc = "validating"
                          /\ tasks'[i].result # <<>>
                          /\ \E k \in 1..Len(audit_logs) :
                                /\ audit_logs[k].application_id = id
                                /\ audit_logs[k].action.text = "Starting automatic processing"
                   [] tasks[i].pc = "validating" ->
                          /\ Len(payments') = Len(payments) + 1
                          /\ payments'[Len(payments')].application_id = id
                          /\ payments'[Len(payments')].validation_result = ResultDict(vr)
                          /\ certificates' = certificates
                          /\ tasks'[i].pc = IF vr.overall_status = "APPROVED"
                                            THEN "sleep_issue" ELSE "done"
                   [] tasks[i].pc = "sleep_issue" ->
                          /\ vr.overall_status = "APPROVED"
                          /\ \E k \in 1..Len(payments) :
                                /\ payments[k].application_id = id
                                /\ payments[k].validation_result = ResultDict(vr)
                          /\ tasks'[i].pc \in {"done", "failed"}
                          /\ tasks'[i].pc = "done"
                             => /\ Len(certificates') = Len(certificates) + 1
                                /\ certificates'[Len(certificates')].application_id = id
                   [] OTHER -> FALSE]_vars

\* the driver has gone through all its steps on an APPROVED result and has
\* issued the certificate
C20_DriverIssuedAfterApproved ==
    \E i \in 1..Len(tasks) :
        /\ tasks[i].pc = "done"
        /\ tasks[i].result # <<>>
        /\ tasks[i].result[1].overall_status = "APPROVED"
        /\ CertsOf(certificates, tasks[i].application_id) # {}

\* C19: an exception raised anywhere in the driver's sequence, a failed write
\* to the store included, is caught and gives an "Auto-processing failed"
\* audit entry for the application; nothing propagates out of the driver.
C19_DriverCatchesEverything ==
    \A i \in 1..Len(tasks) :
        /\ tasks[i].pc # "crashed"
        /\ tasks[i].pc = "failed"
           => \E k \in 1..Len(audit_logs) :
                 /\ audit_logs[k].application_id = tasks[i].application_id
                 /\ audit_logs[k].action.text = "Auto-processing failed"

(***************************************************************************)
(* Properties of the scenarios, the audit trail and the store              *)
(***************************************************************************)
\* the driver of task i has run to its end
DriverCompleted(i) == tasks[i].pc \in {"done", "failed"}

\* the audit log holds "Starting automatic processing" for id and, later, the
\* driver's entry on the validation result
StartedThenResult(id) ==
    \E j, k \in 1..Len(audit_logs) :
        /\ j < k
        /\ audit_logs[j].application_id = id
        /\ audit_logs[j].action.text = "Starting automatic processing"
        /\ audit_logs[k].application_id = id
        /\ audit_logs[k].action.text \in {"Payment auto-validated successfully",
                                         "Payment validation failed"}

\* C21: once the driver of a submitted application has completed, the
\* application is Payment Validated, Issued or Payment Failed, never still
\* Pending, and its audit trail holds "Starting automatic processing"
\* followed later by an entry on the validation result.
C21_ScenarioC ==
    \A i \in 1..Len(tasks) :
        DriverCompleted(i)
        => /\ AppOf(applications, tasks[i].application_id).status
                  \in {"Payment Validated", "Issued", "Payment Failed"}
           /\ StartedThenResult(tasks[i].application_id)

\* a driver has completed on a result that was not APPROVED and has left the
\* application Payment Failed
C21_DriverCompletedOnFailure ==
    \E i \in 1..Len(tasks) :
        /\ tasks[i].pc = "done"
        /\ AppOf(applications, tasks[i].application_id).status = "Payment Failed"
        /\ StartedThenResult(tasks[i].application_id)
        /\ CertsOf(certificates, tasks[i].application_id) = {}

\* C22: submit creates a new application in status Pending at step Document
\* Verification whose history is the two entries Submitted and Documents
\* Received, appends one audit entry for it and schedules the driver without
\* running any of its steps: when submit returns the driver is still before
\* its first sleep has ended, and no other collection has changed.
C22_SubmitCreatesPending ==
    [][Len(applications') = Len(applications) + 1
       => LET a == applications'[Len(applications')]
              id == a.application_id
          IN  /\ applications' = Append(applications, a)
              /\ \A k \in 1..Len(applications) : applications[k].application_id # id
              /\ a.status = "Pending"
              /\ a.current_step = "Document Verification"
              /\ [h \in 1..Len(a.history) |-> a.history[h].step]
                    = <<"Submitted", "Documents Received">>
              /\ audit_logs' = Append(audit_logs,
                     [application_id |-> id,
                      action |-> Act("Application submitted - auto-processing initiated",
                                     0, "", <<>>),
                      timestamp |-> now])
              /\ tasks' = Append(tasks, [application_id |-> id, pc |-> "sleep_verify",
                                         wake |-> now + 2, result |-> <<>>])
              /\ resp' = Response("apply", id, 201, "Pending", <<>>)
              /\ now' = now
              /\ UNCHANGED <<certificates, payments>>]_vars

\* submit has returned and the driver it scheduled has not run a step
C22_SubmittedDriverNotStarted ==
    /\ Len(applications) = 1
    /\ resp.op = "apply"
    /\ resp.code = 201
    /\ Len(audit_logs) = 1
    /\ \E i \in 1..Len(tasks) :
          /\ tasks[i].application_id = applications[1].application_id
          /\ tasks[i].pc = "sleep_verify"
          /\ now < tasks[i].wake

\* the audit entries on a validation result and the status that the record of
\* the application has once that result is applied
OutcomeStatus(text) ==
    IF text \in {"Payment auto-validated successfully", "Payment manually validated"}
    THEN "Payment Validated"
    ELSE IF text \in {"Payment validation failed", "Payment manual validation failed"}
    THEN "Payment Failed"
    ELSE ""

\* C23: the audit entries of an application are appended in the order of the
\* changes they report: when a step appends an entry on a validation
\* result, the record of the application in the store reflects that result
\* already, also when a write to the store fails.
C23_OutcomeLoggedAfterRecord ==
    [][\A k \in (Len(audit_logs) + 1)..Len(audit_logs') :
          OutcomeStatus(audit_logs'[k].action.text) # ""
          => \E i \in 1..Len(applications') :
                /\ applications'[i].application_id = audit_logs'[k].application_id
                /\ applications'[i].status = OutcomeStatus(audit_logs'[k].action.text)]_vars

\* C24: every step of a lifecycle operation (submit, the application of a
\* validation result, issue, revoke) that changes the applications, the
\* certificates or the payments appends, in the same step, an audit entry.
C24_MutationIsAudited ==
    [][<<applications, certificates, payments>>' # <<applications, certificates, payments>>
       => /\ Len(audit_logs') > Len(audit_logs)
          /\ \A k \in 1..Len(audit_logs) : audit_logs'[k] = audit_logs[k]]_vars

\* the history entries of an application that report an applied result, and
\* those that report an issue
ResultEntries(app) ==
    {h \in 1..Len(app.history) :
        app.history[h].step \in {"Payment Auto-Validated", "Payment Validation Failed"}}

IssueEntries(app) ==
    {h \in 1..Len(app.history) : app.history[h].step = "Certificate Auto-Issued"}

PaymentsOf(pays, id) == {k \in 1..Len(pays) : pays[k].application_id = id}

\* a write to the record of an application has been overwritten: the
\* payments or the certificates hold a record whose history entry is gone
\* from the application
LostUpdate ==
    \E i \in 1..Len(applications) :
        \/ Cardinality(ResultEntries(applications[i]))
              < Cardinality(PaymentsOf(payments, applications[i].application_id))
        \/ Cardinality(IssueEntries(applications[i]))
              < Cardinality(CertsOf(certificates, applications[i].application_id))

C26_ApplicationNeverDeleted ==
    [][/\ \A i \in 1..Len(tasks') : tasks'[i].application_id \in AppIds'
       /\ \A k \in 1..Len(applications) : applications[k].application_id \in AppIds']_vars

\* C27: the audit trail is append-only: no step removes or changes an audit
\* entry, so after every step the audit log begins with the entries it held
\* before, also when a write to the store has failed.
C27_AuditTrailAppendOnly ==
    [][/\ Len(audit_logs') >= Len(audit_logs)
       /\ \A k \in 1..Len(audit_logs) : audit_logs'[k] = audit_logs[k]]_vars

\* C28: generated identifiers are unique within the store: after any
\* submits and issues, several in the same clock second included, no two
\* application records share an application id and no two certificate
\* records share a certificate id.
C28_IdentifiersUnique ==
    /\ \A i, j \in 1..Len(applications) :
          applications[i].application_id = applications[j].application_id => i = j
    /\ \A i, j \in 1..Len(certificates) :
          certificates[i].certificate_id = certificates[j].certificate_id => i = j

\* two applications were submitted in one second and two certificates were
\* issued in one second
C28_TwoInTheSameSecond ==
    /\ Len(applications) = 2
    /\ applications[1].submission_date = applications[2].submission_date
    /\ Len(certificates) = 2
    /\ certificates[1].issue_date = certificates[2].issue_date

\* C29: the lookup of a certificate resolves the identifier of a certificate
\* and the identifier of its application to the same record, for every
\* certificate in the store.
C29_LookupByEitherIdentifier ==
    \A k \in 1..Len(certificates) :
        /\ get_certificate_info(certificates[k].certificate_id) = <<certificates[k]>>
        /\ get_certificate_info(certificates[k].application_id) = <<certificates[k]>>

\* the entries of application id in the audit file
EntriesOf(id) == {k \in 1..Len(audit_logs) : audit_logs[k].application_id = id}

\* C30: the audit trail of an application holds exactly the entries of that
\* application, each as often as the audit file holds it, in ascending
\* order of timestamp, with their number and with the first and the last
\* timestamp, which are both null when there is no entry.
C30_AuditTrailQuery ==
    resp.op = "audit-trail"
    => LET r == resp.body
           trail == r.audit_trail
           id == resp.target
       IN  /\ r.application_id = id
           /\ r.total_entries = Len(trail)
           /\ r.total_entries = Cardinality(EntriesOf(id))
           /\ \A e \in LogEntries :
                 Cardinality({i \in 1..Len(trail) : trail[i] = e})
                    = Cardinality({k \in EntriesOf(id) : audit_logs[k] = e})
           /\ \A i, j \in 1..Len(trail) : i < j => trail[i].timestamp <= trail[j].timestamp
           /\ IF EntriesOf(id) = {}
              THEN r.first_entry = None /\ r.last_entry = None
              ELSE /\ \E k \in EntriesOf(id) : r.first_entry = audit_logs[k].timestamp
                   /\ \E k \in EntriesOf(id) : r.last_entry = audit_logs[k].timestamp
                   /\ \A k \in EntriesOf(id) :
                         /\ r.first_entry <= audit_logs[k].timestamp
                         /\ audit_logs[k].timestamp <= r.last_entry

\* the trail of an application was asked for whose entries do not ascend in
\* the audit file, which also holds an entry of another application
C30_TrailWasReordered ==
    /\ resp.op = "audit-trail"
    /\ resp.body.total_entries = 2
    /\ Len(audit_logs) = 3
    /\ resp.body.first_entry < resp.body.last_entry
    /\ \E j, k \in EntriesOf(resp.target) :
          j < k /\ audit_logs[j].timestamp > audit_logs[k].timestamp

(***************************************************************************)
(* End-to-end scenarios of the validation engine                           *)
(***************************************************************************)
\* the request of scenario A: the fields that high_score_payload sets and
\* that the security rubric reads, and local dates that match those of the
\* transmission
ScenarioA(request) ==
    /\ "security_level_indicator" \in DOMAIN request.etp_pos_secure
    /\ request.etp_pos_secure.security_level_indicator
          = S(<<"a","u","t","h","e","n","t","i","c","a","t","e","d">>)
    /\ "merchant_id" \in DOMAIN request.acquiring_information
    /\ request.acquiring_information.merchant_id
          = S(<<"A","B","C","1","2","3","4","5","6","7","8","9">>)
    /\ "terminal_id" \in DOMAIN request.acquiring_information
    /\ request.acquiring_information.terminal_id = S(<<"1","2","3","4","5","6","7","8">>)
    /\ "system_trace_audit_number" \in DOMAIN request.payment_information
    /\ request.payment_information.system_trace_audit_number = S(<<"1","2","3","4","5","6">>)
    /\ "payment_type" \in DOMAIN request.payment_information
    /\ request.payment_information.payment_type = S(<<"s","i","n","g","l","e">>)
    /\ {"transmission_date", "local_transaction_date"} \subseteq DOMAIN request.payment_information
    /\ request.payment_information.local_transaction_date
          = request.payment_information.transmission_date

\* C31: scenario A: every call of validate_payment that returns on a request
\* with security indicator "authenticated", merchant id "ABC123456789",
\* terminal id "12345678", trace number "123456", payment type "single" and
\* matching transmission and local dates gives a security score of 100, or of
\* 97 in the off-hours before 6 and after 22, built from 35 + 25 + 25 + 15,
\* and the overall status APPROVED, whatever the performance rubric draws.
C31_ScenarioA ==
    ScenarioA(engine.request)
    => \A k \in Returned :
          LET c == engine.calls[k]
              hour == HourOf(c.start_time)
              penalty == IF hour < 6 \/ hour > 22 THEN 3 ELSE 0
          IN  /\ c.security_result.details.authentication_score = 35
              /\ c.security_result.details.merchant_score = 25
              /\ c.security_result.details.integrity_score = 25
              /\ c.security_result.details.risk_score = 15 - penalty
              /\ c.result.security_score = 100 - penalty
              /\ c.result.overall_status = "APPROVED"

\* high_score_payload was evaluated at 23:00:02 with the slowest response
\* and the lowest capacity: security 97, performance 50, still APPROVED
C31_ScenarioAOffHoursWorstCase ==
    /\ engine.request = high_score_payload(SampleAppId)
    /\ \E k \in Returned :
          /\ HourOf(engine.calls[k].start_time) = 23
          /\ engine.calls[k].result.security_score = 97
          /\ engine.calls[k].result.performance_score = 50
          /\ engine.calls[k].result.overall_score = 84
          /\ engine.calls[k].result.overall_status = "APPROVED"

\* the request of scenario B: no application id, no payment initiation
\* type, the placeholder terminal id and an empty trace number, as in
\* critical_failure_payload
ScenarioB(request) ==
    /\ request.application_id = <<>>
    /\ request.payment_initiation_type = <<>>
    /\ "terminal_id" \in DOMAIN request.acquiring_information
    /\ request.acquiring_information.terminal_id = S(<<"0","0","0","0","0","0","0","0">>)
    /\ "system_trace_audit_number" \in DOMAIN request.payment_information
    /\ request.payment_information.system_trace_audit_number = S(<<>>)

\* C32 (as stated): scenario B: every call of validate_payment that returns
\* on a request with an empty application id, an empty payment type, terminal
\* id "00000000" and an empty trace number gives a required-fields score of 0
\* out of 30, a security integrity score of 5 out of 25 and the overall
\* status DECLINED.
C32_ScenarioBRequiredFieldsZero ==
    ScenarioB(engine.request)
    => \A k \in Returned :
          /\ engine.calls[k].functional_result.details.required_fields_score = 0
          /\ engine.calls[k].security_result.details.integrity_score = 5
          /\ engine.calls[k].result.overall_status = "DECLINED"

\* C32 (amended): on such a request the required-fields score is 18 out of
\* 30, six points for each of the three bundles payment_information,
\* merchant_information and acquiring_information, which are not empty; the
\* security integrity score is 5 out of 25 and the overall status is DECLINED.
C32_ScenarioB ==
    ScenarioB(engine.request)
    => \A k \in Returned :
          /\ engine.calls[k].functional_result.details.required_fields_score = 18
          /\ engine.calls[k].security_result.details.integrity_score = 5
          /\ engine.calls[k].result.overall_status = "DECLINED"

\* critical_failure_payload, and the same payload with an empty payment_type
\* in payment_information, were evaluated at the best performance: DECLINED
C32_CriticalPayloadDeclined ==
    /\ engine.request \in { critical_failure_payload,
                            WithValue(critical_failure_payload,
                                      <<"payment_information", "payment_type">>, S(<<>>)) }
    /\ \E k \in Returned :
          /\ engine.calls[k].result.performance_score = 100
          /\ engine.calls[k].result.functional_score = 28
          /\ engine.calls[k].result.overall_status = "DECLINED"

(***************************************************************************)
(* Partial scores of the functional rubric                                 *)
(***************************************************************************)
\* a string value of the form YYYY-MM-DD
WellFormedDate(value) ==
    /\ IsStr(value)
    /\ Len(value.v) = 10
    /\ \A i \in 1..10 : IF i \in {5, 8} THEN value.v[i] = "-" ELSE value.v[i] \in Digits

\* a string value of the form HH:MM:SS
WellFormedTime(value) ==
    /\ IsStr(value)
    /\ Len(value.v) = 8
    /\ \A i \in 1..8 : IF i \in {3, 6} THEN value.v[i] = ":" ELSE value.v[i] \in Digits

\* the transmission date and time of the request are well formed and its
\* local transaction date and time are the same values
ConsistentDates(request) ==
    LET payment_info == request.payment_information
    IN  /\ { "transmission_date", "transmission_time",
             "local_transaction_date", "local_transaction_time" } \subseteq DOMAIN payment_info
        /\ WellFormedDate(payment_info.transmission_date)
        /\ WellFormedTime(payment_info.transmission_time)
        /\ payment_info.local_transaction_date = payment_info.transmission_date
        /\ payment_info.local_transaction_time = payment_info.transmission_time

\* C33: for every request whose transmission date and time are well formed
\* (YYYY-MM-DD, HH:MM:SS) and whose local transaction date and time are
\* identical to them, the format score and the consistency score of the
\* functional rubric add up to at least 30 of their 45 points.
C33_FormatAndConsistencyAtLeastThirty ==
    ConsistentDates(engine.request)
    => \A k \in 1..Len(engine.calls) :
          LET details == engine.calls[k].functional_result.details
          IN  /\ details.format_score + details.consistency_score >= 30
              /\ details.format_score + details.consistency_score <= 45
              /\ details.format_score >= 20
              /\ details.consistency_score >= 10

\* the request of the driver was evaluated: its dates are well formed and
\* consistent, its merchant id is not alphanumeric and its terminal id is the
\* placeholder, so the two partial scores add up to exactly 30
C33_DriverRequestScoresThirty ==
    /\ engine.request = SampleDriverRequest
    /\ ConsistentDates(engine.request)
    /\ \E k \in Returned :
          /\ engine.calls[k].functional_result.details.format_score = 20
          /\ engine.calls[k].functional_result.details.consistency_score = 10

(***************************************************************************)
(* Termination of the automatic driver                                     *)
(***************************************************************************)
\* the driver of task i has returned, or has ended with an exception that
\* left its except clause
Terminated(i) == tasks[i].pc \in {"done", "failed", "crashed"}

\* C34: once scheduled, every driver runs to its end: when the event loop
\* runs the drivers whose timers have expired and time passes, each task
\* that submit has started eventually has returned or has failed; no step
\* waits for ever and none is repeated.
C34_DriverTerminates ==
    (tasks # <<>>) ~> (\A i \in 1..Len(tasks) : Terminated(i))

\* a driver has gone through its three sleeps and has returned after issuing
\* the certificate, ten seconds after the submit
C34_DriverRanToCompletion ==
    \E i \in 1..Len(tasks) :
        /\ tasks[i].pc = "done"
        /\ now >= t0 + 10
        /\ AppOf(applications, tasks[i].application_id).status = "Issued"
        /\ \E k \in 1..Len(audit_logs) :
              audit_logs[k].action.text = "Certificate auto-issued successfully"

(***************************************************************************)
(* The lifecycle of an application                                         *)
(***************************************************************************)
\* the moves of the status of an application that the lifecycle allows
LifecycleMoves ==
    { <<"Pending", "Payment Validated">>, <<"Payment Validated", "Issued">>,
      <<"Pending", "Payment Failed">> }

\* C35: the status of an application only moves from Pending to Payment
\* Validated, from Payment Validated to Issued and from Pending to Payment
\* Failed; once an application is Issued no later operation, such as a manual
\* validation that fails, changes its status or resets payment_validated;
\* Payment Failed is entered from Pending only.
C35_StatusFollowsLifecycle ==
    [][\A k \in 1..Len(applications) :
          k <= Len(applications')
          => LET before == applications[k]
                 after == applications'[k]
             IN  /\ after.application_id = before.application_id
                 /\ after.status # before.status
                    => <<before.status, after.status>> \in LifecycleMoves
                 /\ before.status = "Issued"
                    => /\ after.status = "Issued"
                       /\ Validated(after) = Validated(before)
                 /\ (after.status = "Payment Failed" /\ before.status # "Payment Failed")
                    => before.status = "Pending"]_vars

(***************************************************************************)
(* Drivers of different applications                                       *)
(***************************************************************************)
\* the store as the driver of application id would find it had no other
\* driver run: the certificates and the payments of id alone
Alone(id) ==
    [ st |-> [ applications |-> applications,
               certificates |-> SelectSeq(certificates, LAMBDA c : c.application_id = id),
               payments |-> SelectSeq(payments, LAMBDA p : p.application_id = id),
               audit_logs |-> audit_logs ],
      n |-> 0, exc |-> "" ]

\* the step that the driver of task j is about to take, taken on Alone
AloneStep(j) ==
    LET id == tasks[j].application_id
    IN  CASE tasks[j].pc = "validating" ->
                 IF is_approved(tasks[j].result[1])
                 THEN internal_validate_payment_success(Alone(id), id, tasks[j].result[1],
                                                        now, NoFault)
                 ELSE internal_validate_payment_failure(Alone(id), id, tasks[j].result[1],
                                                        now, NoFault)
          [] tasks[j].pc = "sleep_issue" ->
                 internal_issue_certificate(Alone(id), id, now, NoFault)
          [] OTHER -> Alone(id)

\* a step leaves the records of every application but id as they are, and
\* the certificates it adds belong to id
OthersUntouched(id) ==
    /\ Len(applications') = Len(applications)
    /\ \A k \in 1..Len(applications) :
          applications[k].application_id # id => applications'[k] = applications[k]
    /\ Len(certificates') >= Len(certificates)
    /\ \A k \in 1..Len(certificates') :
          IF k <= Len(certificates)
          THEN certificates'[k] = certificates[k]
          ELSE certificates'[k].application_id = id

\* a certificate id without its sequence number
Unnumbered(certificate_id) == SubSeq(certificate_id, 1, Len(certificate_id) - 4)

\* an application record, and a certificate record, without the sequence
\* number of the certificate id
AppUnnumbered(app) ==
    IF HasCredential(app) THEN [app EXCEPT !.certificate_id = Unnumbered(@)] ELSE app

CertUnnumbered(cert) == [cert EXCEPT !.certificate_id = Unnumbered(@)]

\* C36 (as stated): drivers of different applications are independent: in
\* every interleaving a step of the driver of application A leaves the
\* record, the history and the certificates of every other application
\* unchanged, and what the step makes of A's own record and certificates is
\* what it would have made of them had no other driver run.
C36_DriversIndependent ==
    [][\A j \in 1..Len(tasks) :
          tasks'[j].pc # tasks[j].pc
          => LET id == tasks[j].application_id
                 alone == AloneStep(j).st
             IN  /\ OthersUntouched(id)
                 /\ AppOf(applications', id) = AppOf(alone.applications, id)
                 /\ SelectSeq(certificates', LAMBDA c : c.application_id = id)
                       = alone.certificates]_vars

\* C36 (amended): the same, except for the sequence number that ends the
\* certificate id, which counts the certificates of all applications.
C36_DriversIndependentButForNumbering ==
    [][\A j \in 1..Len(tasks) :
          tasks'[j].pc # tasks[j].pc
          => LET id == tasks[j].application_id
                 alone == AloneStep(j).st
                 mine == SelectSeq(certificates', LAMBDA c : c.application_id = id)
             IN  /\ OthersUntouched(id)
                 /\ AppUnnumbered(AppOf(applications', id))
                       = AppUnnumbered(AppOf(alone.applications, id))
                 /\ Len(mine) = Len(alone.certificates)
                 /\ \A k \in 1..Len(mine) :
                       CertUnnumbered(mine[k]) = CertUnnumbered(alone.certificates[k])]_vars

\* the drivers of two applications have both issued: the second certificate
\* carries the number 0002
C36_TwoDriversIssued ==
    /\ Len(tasks) = 2
    /\ \A j \in 1..2 : tasks[j].pc = "done"
    /\ \A k \in 1..2 : applications[k].status = "Issued"
    /\ Len(certificates) = 2
    /\ certificates[1].application_id # certificates[2].application_id
    /\ Tail_n(certificates[2].certificate_id, 4) = <<"0", "0", "0", "2">>

(***************************************************************************)
(* The outcome of automatic processing                                     *)
(***************************************************************************)
\* the application of task j is Issued and has exactly one certificate
IssuedOnce(j) ==
    /\ AppOf(applications, tasks[j].application_id).status = "Issued"
    /\ Cardinality(CertsOf(certificates, tasks[j].application_id)) = 1

\* C37: when no write to the store fails and nobody validates or issues by
\* hand, the request that the driver builds is APPROVED whatever the
\* performance rubric draws and whatever the hour, so that every application
\* that is processed automatically is eventually Issued with exactly one
\* certificate.
C37_AutoProcessedIsIssued ==
    /\ [](\A j \in 1..Len(tasks) :
             tasks[j].result # <<>> => tasks[j].result[1].overall_status = "APPROVED")
    /\ (tasks # <<>>) ~> (\A j \in 1..Len(tasks) : IssuedOnce(j))

(***************************************************************************)
(* The link from an application to its certificate                         *)
(***************************************************************************)
\* C38: in every reachable state the certificate_id of an application, when
\* it is set, is the id of a certificate record of the store whose
\* application_id is that application, and an application whose status is
\* Issued has its certificate_id set.
C38_CertificateIdNamesARecord ==
    \A i \in 1..Len(applications) :
        LET app == applications[i]
        IN  /\ HasCredential(app)
               => \E k \in 1..Len(certificates) :
                     /\ certificates[k].certificate_id = app.certificate_id
                     /\ certificates[k].application_id = app.application_id
            /\ app.status = "Issued" => HasCredential(app)

(***************************************************************************)
(* The answer of a manual issue                                            *)
(***************************************************************************)
\* C39: a manual issue that succeeds reports the certificate that this very
\* call created: the id in its response and in its audit entry is the id of
\* the certificate record that the call appended, which is also the
\* certificate_id that the call stored on the application.
C39_ManualIssueReportsItsCertificate ==
    [][budget'.issues = budget.issues - 1
       => /\ resp'.op = "issue"
          /\ resp'.code = 200
          /\ Len(certificates') = Len(certificates) + 1
          /\ LET created == certificates'[Len(certificates')]
                 entry == audit_logs'[Len(audit_logs')]
             IN  /\ created.application_id = resp'.target
                 /\ resp'.certificate_id = created.certificate_id
                 /\ entry.action.text = "Certificate manually issued"
                 /\ entry.action.certificate_id = created.certificate_id
                 /\ AppOf(applications', resp'.target).certificate_id
                       = created.certificate_id]_vars

(***************************************************************************)
(* The history of an application                                           *)
(***************************************************************************)
\* history after holds history before and then the records that were appended
Extends(after, before) ==
    /\ Len(after) >= Len(before)
    /\ SubSeq(after, 1, Len(before)) = before

\* C40: the history of an application is append-only and ordered in time: a
\* step only appends step records to it, and every record that is appended
\* carries a timestamp that is not earlier than that of the record before it.
C40_HistoryAppendOnlyInTimeOrder ==
    [][\A k \in 1..Len(applications) :
          k <= Len(applications')
          => LET before == applications[k].history
                 after == applications'[k].history
             IN  /\ Extends(after, before)
                 /\ \A h \in (Len(before) + 1)..Len(after) :
                       h > 1 => after[h].timestamp >= after[h - 1].timestamp]_vars


=============================================================================
